---- MODULE Spec2Model ----
(***************************************************************************)
(* Model of iaptic-js: the IapticStripe adapter (product cache, access     *)
(* token, backend calls) and its RefreshScheduler (scheduled purchase      *)
(* refreshes armed with platform timers).                                  *)
(*                                                                         *)
(* Time is counted in seconds (1 unit = 1000 ms) because the timer limit   *)
(* 2147483647 ms plus any offset does not fit TLC's 32-bit integers; all    *)
(* instants of the model are whole seconds, so "delay > 2147483647 ms" is  *)
(* "delay > 2147483 s".  Two clocks are modelled: the monotonic clock the  *)
(* timer facility counts delays on (mono) and the wall clock Date.now()    *)
(* (mono + skew), which the platform may set back.                         *)
(***************************************************************************)
EXTENDS Integers, Sequences, FiniteSets, TLC

\* ---- program constants (seconds) ----
EXPIRATION_MARGIN == 10
STALE_GUARD == 10
RETRY_DELAY == 30
PRODUCTS_FRESHNESS == 60
SET_TIMEOUT_MAX_DELAY == 2147483
POST_CHANGE_DELAY == 10

\* ---- bounds of the model ----
\* the scheduler's specifications
MaxTime == 40
MaxObjs == 2
MaxCalls == 2
\* the whole program
SmallMaxTime == 10
SmallMaxObjs == 2
SmallMaxCalls == 1
\* the product cache's specification
ProductsMaxTime == 70
ResponseMaxTime == 10
ResponseMaxObjs == 4

TickStep == EXPIRATION_MARGIN
\* the wall clock is set back at most once, by more than the staleness guard
Skews == {0, 0 - 2 * STALE_GUARD}

\* ---- inputs ----
NoToken == "<absent>"
NoObj == <<>>
EmptyFn == [x \in {} |-> x]
PRE_EXPIRATION == <<"pre-expiration">>
POST_EXPIRATION == <<"post-expiration">>
POST_CHANGE == <<"post-change-verification">>
RETRY_PREFIX == "retry-"
\* an expiration too far for setTimeout: both of its instants are beyond the limit
FarExpiration == SET_TIMEOUT_MAX_DELAY + ProductsMaxTime + 2 * EXPIRATION_MARGIN
\* a purchase: expirationDate is <<>> when absent, <<E>> when present
PurchasesOf(subscriptionIds, expirations) ==
    [purchaseId : subscriptionIds,
     expirationDate : {<<>>} \cup {<<e>> : e \in expirations}]

VARIABLES
    mono,        \* monotonic clock of the timer facility
    skew,        \* Date.now() - mono (<= 0 after the wall clock was set back)
    token,       \* localStorage 'iaptic_access_token'
    cache,       \* localStorage 'iaptic_products': <<>> or <<[products, fetchedAt]>>
    heap,        \* the ScheduledRefresh objects still referenced, by object identity
    schedules,   \* RefreshScheduler.schedules: the objects of the array
    timers,      \* armed platform timers: object -> monotonic instant it is due
    calls,       \* backend calls in flight
    last,        \* history: what the last step of the program did
    lastFetchOk, \* history: <<>> or <<t>>, t the time of the last successful product fetch
    lim,         \* the bounds of the run: [time, objs, calls], fixed by Init
    storage,     \* localStorage can be accessed (FALSE: every access throws), fixed by Init
    instance     \* the IapticStripe instance: "none", "ready", or "failed" (constructor threw)

vars == <<mono, skew, token, cache, heap, schedules, timers, calls, last, lastFetchOk, lim, storage, instance>>

\* Date.now()
Now == mono + skew

\* the records of RefreshScheduler.schedules.  The array is kept as the set of
\* its objects: the program only ever asks it whether some element satisfies a
\* predicate (find, some), appends, and replaces it by [].
Collection == {heap[o] : o \in schedules}

\* ---------------------------------------------------------------------------
\* RefreshScheduler, as functions on the scheduler state
\*   S = [heap, schedules, timers, ok]   (ok = FALSE: the model ran out of objects)
\* An object is identified by <<id, n>>: n tells apart objects with the same id
\* (one in the array, others dropped from it by clearSchedules but still held
\* by a timer closure or a suspended callback).
\* ---------------------------------------------------------------------------
SchedulerState == [heap |-> heap, schedules |-> schedules, timers |-> timers, ok |-> TRUE]

\* `${subscriptionId}-${date.getTime()}`
ScheduleId(subscriptionId, time) == <<subscriptionId, time>>

\* the test compares the whole reason with the prefix
StartsWithRetryExact(reason) == reason = <<RETRY_PREFIX>>

\* reason.startsWith('retry-')
StartsWithRetry(reason) == Len(reason) > 0 /\ reason[1] = RETRY_PREFIX

\* the retry keeps the reason of the schedule that failed
RetryReasonUnmarked(reason) == reason

\* `retry-${schedule.reason}`
RetryReason(reason) == <<RETRY_PREFIX>> \o reason

\* the target time is passed to the timer facility instead of the delay
SetTimeoutAbsolute(S, o, now, monoNow) ==
    LET delay == S.heap[o].scheduledAt - now IN
    IF delay <= 0 THEN S
    ELSE IF delay > SET_TIMEOUT_MAX_DELAY THEN S
    ELSE [S EXCEPT !.timers = @ @@ (o :> monoNow + S.heap[o].scheduledAt)]

\* the limit of the timer facility is not checked
SetTimeoutNoLimit(S, o, now, monoNow) ==
    LET delay == S.heap[o].scheduledAt - now IN
    IF delay <= 0 THEN S
    ELSE [S EXCEPT !.timers = @ @@ (o :> monoNow + delay)]

\* a schedule that is already due is armed to run at once
SetTimeoutPastDue(S, o, now, monoNow) ==
    LET delay == S.heap[o].scheduledAt - now IN
    IF delay > SET_TIMEOUT_MAX_DELAY THEN S
    ELSE [S EXCEPT !.timers = @ @@ (o :> monoNow + (IF delay <= 0 THEN 0 ELSE delay))]

\* RefreshScheduler.setTimeout, the arming part
SetTimeout(S, o, now, monoNow) ==
    LET delay == S.heap[o].scheduledAt - now IN
    IF delay <= 0 THEN S
    ELSE IF delay > SET_TIMEOUT_MAX_DELAY THEN S
    ELSE [S EXCEPT !.timers = @ @@ (o :> monoNow + delay)]

\* entries that completed do not count as duplicates
HasIdNotCompleted(S, id) == \E o \in S.schedules : S.heap[o].id = id /\ ~S.heap[o].completed

\* only entries whose timer is still pending count as duplicates
HasIdArmed(S, id) == \E o \in S.schedules : S.heap[o].id = id /\ o \in DOMAIN S.timers

\* this.schedules.some(s => s.id === schedule.id)
HasId(S, id) == \E o \in S.schedules : S.heap[o].id = id

NewObject(S, id) ==
    <<id, CHOOSE n \in 0 .. lim.objs :
              /\ <<id, n>> \notin DOMAIN S.heap
              /\ \A m \in 0 .. (n - 1) : <<id, m>> \in DOMAIN S.heap>>

\* an entry is a duplicate only when its reason is the same too
ScheduleRefreshPerReason(S, subscriptionId, time, reason, now, monoNow) ==
    LET id == ScheduleId(subscriptionId, time) IN
    IF \E x \in S.schedules : S.heap[x].id = id /\ S.heap[x].reason = reason THEN S
    ELSE IF Cardinality(DOMAIN S.heap) >= lim.objs THEN [S EXCEPT !.ok = FALSE]
    ELSE LET o == NewObject(S, id)
             schedule == [id |-> id,
                          subscriptionId |-> subscriptionId,
                          scheduledAt |-> time,
                          completed |-> FALSE,
                          inProgress |-> FALSE,
                          reason |-> reason]
             S1 == [S EXCEPT !.heap = @ @@ (o :> schedule),
                             !.schedules = @ \cup {o}]
         IN  SetTimeout(S1, o, now, monoNow)

\* RefreshScheduler.scheduleRefresh
ScheduleRefresh(S, subscriptionId, time, reason, now, monoNow) ==
    LET id == ScheduleId(subscriptionId, time) IN
    IF HasId(S, id) THEN S
    ELSE IF Cardinality(DOMAIN S.heap) >= lim.objs THEN [S EXCEPT !.ok = FALSE]
    ELSE LET o == NewObject(S, id)
             schedule == [id |-> id,
                          subscriptionId |-> subscriptionId,
                          scheduledAt |-> time,
                          completed |-> FALSE,
                          inProgress |-> FALSE,
                          reason |-> reason]
             S1 == [S EXCEPT !.heap = @ @@ (o :> schedule),
                             !.schedules = @ \cup {o}]
         IN  SetTimeout(S1, o, now, monoNow)

\* an instant equal to now counts as being in the future
SchedulePurchaseRefreshesInclusive(S, purchase, now, monoNow) ==
    IF purchase.expirationDate = <<>> THEN S
    ELSE LET expirationDate == purchase.expirationDate[1]
             beforeExpiration == expirationDate - EXPIRATION_MARGIN
             afterExpiration == expirationDate + EXPIRATION_MARGIN
             S1 == IF beforeExpiration >= now
                   THEN ScheduleRefresh(S, purchase.purchaseId, beforeExpiration,
                                        PRE_EXPIRATION, now, monoNow)
                   ELSE S
         IN  IF afterExpiration >= now
             THEN ScheduleRefresh(S1, purchase.purchaseId, afterExpiration,
                                  POST_EXPIRATION, now, monoNow)
             ELSE S1

\* RefreshScheduler.schedulePurchaseRefreshes
SchedulePurchaseRefreshes(S, purchase, now, monoNow) ==
    IF purchase.expirationDate = <<>> THEN S
    ELSE LET expirationDate == purchase.expirationDate[1]
             beforeExpiration == expirationDate - EXPIRATION_MARGIN
             afterExpiration == expirationDate + EXPIRATION_MARGIN
             S1 == IF beforeExpiration > now
                   THEN ScheduleRefresh(S, purchase.purchaseId, beforeExpiration,
                                        PRE_EXPIRATION, now, monoNow)
                   ELSE S
         IN  IF afterExpiration > now
             THEN ScheduleRefresh(S1, purchase.purchaseId, afterExpiration,
                                  POST_EXPIRATION, now, monoNow)
             ELSE S1

\* the purchases of the response are not handed to the scheduler
ScheduleAllNone(S, purchases, now, monoNow) == S

\* only the first purchase of the response is handed to the scheduler
ScheduleAllFirstOnly(S, purchases, now, monoNow) ==
    IF purchases = <<>> THEN S
    ELSE SchedulePurchaseRefreshes(S, Head(purchases), now, monoNow)

\* data.purchases.forEach(purchase => schedulePurchaseRefreshes(purchase))
RECURSIVE ScheduleAll(_, _, _, _)
ScheduleAll(S, purchases, now, monoNow) ==
    IF purchases = <<>> THEN S
    ELSE ScheduleAll(SchedulePurchaseRefreshes(S, Head(purchases), now, monoNow),
                     Tail(purchases), now, monoNow)

\* only the entries that completed are dropped
ClearSchedulesCompleted(S) ==
    [S EXCEPT !.schedules = {o \in @ : ~S.heap[o].completed}]

\* RefreshScheduler.clearSchedules
ClearSchedules(S) == [S EXCEPT !.schedules = {}]

\* garbage collection: an object nothing refers to any more (not in the
\* array, no timer closure, no suspended callback) is dropped.
Collect(S, cs) ==
    LET live == S.schedules \cup DOMAIN S.timers \cup {c.by : c \in cs}
    IN  [S EXCEPT !.heap = [o \in (DOMAIN S.heap) \cap live |-> S.heap[o]]]

\* ---------------------------------------------------------------------------
\* storage (Utils.storage*): a write may fail (quota exceeded) and is then dropped
\* ---------------------------------------------------------------------------
\* a token that is already stored is kept
StoreAccessTokenOnce(old, accessToken, writeOk) ==
    IF writeOk /\ old = NoToken THEN accessToken ELSE old

\* IapticStripe._storeAccessToken
StoreAccessToken(old, accessToken, writeOk) ==
    IF writeOk THEN accessToken ELSE old

\* an existing entry gets the new products but keeps its time
SetCachedProductsKeepsTime(old, products, now, writeOk) ==
    IF ~writeOk THEN old
    ELSE IF old = <<>> THEN <<[products |-> products, fetchedAt |-> now]>>
    ELSE <<[products |-> products, fetchedAt |-> old[1].fetchedAt]>>

\* IapticStripe._setCachedProducts
SetCachedProducts(old, products, now, writeOk) ==
    IF writeOk THEN <<[products |-> products, fetchedAt |-> now]>> ELSE old

\* the freshness window lost a zero: 6 000 ms
IsFreshShortWindow(cached, now) ==
    cached # <<>> /\ cached[1].fetchedAt > now - PRODUCTS_FRESHNESS \div 10

\* the freshness test of refreshProducts
IsFresh(cached, now) ==
    cached # <<>> /\ cached[1].fetchedAt > now - PRODUCTS_FRESHNESS

\* a backend call is put in flight; n tells apart equal calls
NewCall(cs, kind, by) ==
    [kind |-> kind, by |-> by,
     n |-> CHOOSE n \in 0 .. lim.calls :
               /\ [kind |-> kind, by |-> by, n |-> n] \notin cs
               /\ \A m \in 0 .. (n - 1) : [kind |-> kind, by |-> by, n |-> m] \in cs]

Commit(S, cs) ==
    LET G == Collect(S, cs) IN
    /\ S.ok
    /\ heap' = G.heap
    /\ schedules' = G.schedules
    /\ timers' = G.timers
    /\ calls' = cs

\* ---------------------------------------------------------------------------
\* the platform: clocks
\* ---------------------------------------------------------------------------
Tick ==
    /\ mono + TickStep <= lim.time
    /\ mono' = mono + TickStep
    /\ UNCHANGED <<skew, token, cache, heap, schedules, timers, calls, last, lastFetchOk, lim, storage, instance>>

\* the wall clock is set back (Date.now() is not monotonic)
ClockBack ==
    /\ \E k \in Skews : k < skew /\ skew' = k
    /\ UNCHANGED <<mono, token, cache, heap, schedules, timers, calls, last, lastFetchOk, lim, storage, instance>>

\* ---------------------------------------------------------------------------
\* IapticStripe
\* ---------------------------------------------------------------------------
CanCall == Cardinality(calls) < lim.calls

\* refreshProducts up to the fetch
RefreshProductsBody(op) ==
    IF IsFresh(cache, Now)
    THEN /\ last' = [op |-> op, out |-> "cached", ret |-> cache[1].products]
         /\ UNCHANGED calls
    ELSE /\ CanCall
         /\ calls' = calls \cup {NewCall(calls, "products", NoObj)}
         /\ last' = [op |-> op, out |-> "fetch", ret |-> <<>>]

RefreshProducts ==
    /\ RefreshProductsBody("refreshProducts")
    /\ UNCHANGED <<mono, skew, token, cache, heap, schedules, timers, lastFetchOk, lim, storage, instance>>

\* getProducts applies the freshness window too
GetProductsFresh ==
    /\ RefreshProductsBody("getProducts")
    /\ UNCHANGED <<mono, skew, token, cache, heap, schedules, timers, lastFetchOk, lim, storage, instance>>

GetProducts ==
    /\ IF cache # <<>>
       THEN /\ last' = [op |-> "getProducts", out |-> "cached", ret |-> cache[1].products]
            /\ UNCHANGED calls
       ELSE RefreshProductsBody("getProducts")
    /\ UNCHANGED <<mono, skew, token, cache, heap, schedules, timers, lastFetchOk, lim, storage, instance>>

\* the fetch of refreshProducts answered with ok and a product list
ProductsOk(c, products, writeOk) ==
    /\ c \in calls
    /\ writeOk => storage
    /\ c.kind = "products"
    /\ calls' = calls \ {c}
    /\ cache' = SetCachedProducts(cache, products, Now, writeOk)
    /\ lastFetchOk' = <<Now>>
    /\ last' = [op |-> "productsOk", out |-> "ok", ret |-> products]
    /\ UNCHANGED <<mono, skew, token, heap, schedules, timers, lim, storage, instance>>

\* a failed fetch drops the cache entry
ProductsFailClears(c) ==
    /\ c \in calls
    /\ c.kind = "products"
    /\ calls' = calls \ {c}
    /\ cache' = <<>>
    /\ last' = [op |-> "productsFail", out |-> "throw"]
    /\ UNCHANGED <<mono, skew, token, heap, schedules, timers, lastFetchOk, lim, storage, instance>>

\* the fetch failed: transport error, status not ok, or payload not ok
ProductsFail(c) ==
    /\ c \in calls
    /\ c.kind = "products"
    /\ calls' = calls \ {c}
    /\ last' = [op |-> "productsFail", out |-> "throw"]
    /\ UNCHANGED <<mono, skew, token, cache, heap, schedules, timers, lastFetchOk, lim, storage, instance>>

\* getAccessToken()
GetAccessToken ==
    /\ last' = IF storage
               THEN [op |-> "getAccessToken", out |-> "ok", ret |-> token]
               ELSE [op |-> "getAccessToken", out |-> "throw", ret |-> NoToken]
    /\ UNCHANGED <<mono, skew, token, cache, heap, schedules, timers, calls, lastFetchOk, lim, storage, instance>>

\* order(params) up to the fetch; params.accessToken may be absent
Order(accessToken) ==
    /\ IF accessToken = NoToken /\ ~storage
       THEN /\ last' = [op |-> "order", out |-> "throw"]
            /\ UNCHANGED calls
       ELSE /\ CanCall
            /\ calls' = calls \cup {NewCall(calls, "order", NoObj)}
            /\ last' = [op |-> "order", out |-> "fetch"]
    /\ UNCHANGED <<mono, skew, token, cache, heap, schedules, timers, lastFetchOk, lim, storage, instance>>

OrderOk(c, accessToken, writeOk) ==
    /\ c \in calls
    /\ writeOk => storage
    /\ c.kind = "order"
    /\ calls' = calls \ {c}
    /\ token' = IF accessToken # NoToken
                THEN StoreAccessToken(token, accessToken, writeOk)
                ELSE token
    /\ last' = [op |-> "orderOk", out |-> "ok"]
    /\ UNCHANGED <<mono, skew, cache, heap, schedules, timers, lastFetchOk, lim, storage, instance>>

OrderFail(c) ==
    /\ c \in calls
    /\ c.kind = "order"
    /\ calls' = calls \ {c}
    /\ last' = [op |-> "orderFail", out |-> "throw"]
    /\ UNCHANGED <<mono, skew, token, cache, heap, schedules, timers, lastFetchOk, lim, storage, instance>>

\* getPurchases(accessToken?) called by the application, up to the fetch
GetPurchases(accessToken) ==
    LET used == IF accessToken = NoToken THEN token ELSE accessToken IN
    /\ IF accessToken = NoToken /\ ~storage
       THEN \* Utils.storageGetString does not catch: the promise is rejected
            /\ last' = [op |-> "getPurchases", out |-> "throw"]
            /\ UNCHANGED calls
       ELSE IF used = NoToken
       THEN /\ last' = [op |-> "getPurchases", out |-> "empty"]
            /\ UNCHANGED calls
       ELSE /\ CanCall
            /\ calls' = calls \cup {NewCall(calls, "purchases", NoObj)}
            /\ last' = [op |-> "getPurchases", out |-> "fetch"]
    /\ UNCHANGED <<mono, skew, token, cache, heap, schedules, timers, lastFetchOk, lim, storage, instance>>

\* an entry that completed is taken out of the collection
AfterRefreshOkRemoves(S, o) ==
    [S EXCEPT !.heap[o].completed = TRUE, !.heap[o].inProgress = FALSE,
              !.schedules = @ \ {o}]

\* the flag is not reset after a success
AfterRefreshOkKeepsInProgress(S, o) ==
    [S EXCEPT !.heap[o].completed = TRUE]

\* the timer callback after `await getPurchases()` resolved
AfterRefreshOk(S, o) ==
    [S EXCEPT !.heap[o].completed = TRUE, !.heap[o].inProgress = FALSE]

\* there is no finally block: the flag is not reset after a failure
AfterRefreshFailKeepsInProgress(S, o, now, monoNow) ==
    LET schedule == S.heap[o] IN
    IF ~StartsWithRetry(schedule.reason)
    THEN ScheduleRefresh(S, schedule.subscriptionId, now + RETRY_DELAY,
                         RetryReason(schedule.reason), now, monoNow)
    ELSE S

\* completed is set in the finally block, after a failure too
AfterRefreshFailCompletes(S, o, now, monoNow) ==
    LET schedule == S.heap[o]
        S1 == IF ~StartsWithRetry(schedule.reason)
              THEN ScheduleRefresh(S, schedule.subscriptionId, now + RETRY_DELAY,
                                   RetryReason(schedule.reason), now, monoNow)
              ELSE S
    IN  [S1 EXCEPT !.heap[o].inProgress = FALSE, !.heap[o].completed = TRUE]

\* the catch block records a retry whatever the reason of the failed entry
AfterRefreshFailAlwaysRetries(S, o, now, monoNow) ==
    LET schedule == S.heap[o]
        S1 == ScheduleRefresh(S, schedule.subscriptionId, now + RETRY_DELAY,
                              RetryReason(schedule.reason), now, monoNow)
    IN  [S1 EXCEPT !.heap[o].inProgress = FALSE]

\* the catch block arms the timer of the failed entry again instead of
\* recording a retry entry
AfterRefreshFailRearms(S, o, now, monoNow) ==
    LET schedule == S.heap[o]
        S1 == IF ~StartsWithRetry(schedule.reason)
              THEN [S EXCEPT !.timers = [x \in DOMAIN S.timers \cup {o} |->
                                            IF x = o THEN monoNow + RETRY_DELAY
                                            ELSE S.timers[x]]]
              ELSE S
    IN  [S1 EXCEPT !.heap[o].inProgress = FALSE]

\* the timer callback after `await getPurchases()` threw: catch and finally
AfterRefreshFail(S, o, now, monoNow) ==
    LET schedule == S.heap[o]
        S1 == IF ~StartsWithRetry(schedule.reason)
              THEN ScheduleRefresh(S, schedule.subscriptionId, now + RETRY_DELAY,
                                   RetryReason(schedule.reason), now, monoNow)
              ELSE S
    IN  [S1 EXCEPT !.heap[o].inProgress = FALSE]

\* the fetch of getPurchases answered with ok; by a timer callback or by the application
PurchasesOk(c, purchases, newAccessToken, writeOk) ==
    /\ c \in calls
    /\ writeOk => storage
    /\ c.kind = "purchases"
    /\ LET o == c.by
           S1 == ScheduleAll(SchedulerState, purchases, Now, mono)
           S2 == IF o # NoObj THEN AfterRefreshOk(S1, o) ELSE S1
       IN  Commit(S2, calls \ {c})
    /\ token' = IF newAccessToken # NoToken
                THEN StoreAccessToken(token, newAccessToken, writeOk)
                ELSE token
    /\ last' = [op |-> "purchasesOk", out |-> "ok", obj |-> c.by]
    /\ UNCHANGED <<mono, skew, cache, lastFetchOk, lim, storage, instance>>

PurchasesFail(c) ==
    /\ c \in calls
    /\ c.kind = "purchases"
    /\ LET o == c.by
           S1 == IF o # NoObj THEN AfterRefreshFail(SchedulerState, o, Now, mono)
                 ELSE SchedulerState
       IN  Commit(S1, calls \ {c})
    /\ last' = [op |-> "purchasesFail",
                out |-> IF c.by = NoObj THEN "throw" ELSE "caught",
                obj |-> c.by,
                reason |-> IF c.by = NoObj THEN <<>> ELSE heap[c.by].reason]
    /\ UNCHANGED <<mono, skew, token, cache, lastFetchOk, lim, storage, instance>>

\* changePlan(planChange) called by the application, up to the fetch
ChangePlan(accessToken) ==
    LET used == IF accessToken = NoToken THEN token ELSE accessToken IN
    /\ IF (accessToken = NoToken /\ ~storage) \/ used = NoToken
       THEN /\ last' = [op |-> "changePlan", out |-> "throw",
                        error |-> IF accessToken = NoToken /\ ~storage
                                  THEN "localStorage"
                                  ELSE "No access token available"]
            /\ UNCHANGED calls
       ELSE /\ CanCall
            /\ calls' = calls \cup {NewCall(calls, "changePlan", NoObj)}
            /\ last' = [op |-> "changePlan", out |-> "fetch"]
    /\ UNCHANGED <<mono, skew, token, cache, heap, schedules, timers, lastFetchOk, lim, storage, instance>>

ChangePlanOk(c, purchase, newAccessToken, writeOk) ==
    /\ c \in calls
    /\ writeOk => storage
    /\ c.kind = "changePlan"
    /\ token' = IF newAccessToken # NoToken
                THEN StoreAccessToken(token, newAccessToken, writeOk)
                ELSE token
    /\ LET S1 == SchedulePurchaseRefreshes(SchedulerState, purchase, Now, mono)
           S2 == ScheduleRefresh(S1, purchase.purchaseId, Now + POST_CHANGE_DELAY,
                                 POST_CHANGE, Now, mono)
       IN  Commit(S2, calls \ {c})
    /\ last' = [op |-> "changePlanOk", out |-> "ok", purchase |-> purchase]
    /\ UNCHANGED <<mono, skew, cache, lastFetchOk, lim, storage, instance>>

\* a failed plan change is answered by scheduling a verification of its own
ChangePlanFailSchedulesRetry(c) ==
    /\ c \in calls
    /\ c.kind = "changePlan"
    /\ Commit(ScheduleRefresh(SchedulerState, "s1", Now + RETRY_DELAY,
                              RetryReason(POST_CHANGE), Now, mono), calls \ {c})
    /\ last' = [op |-> "changePlanFail", out |-> "throw"]
    /\ UNCHANGED <<mono, skew, token, cache, lastFetchOk, lim, storage, instance>>

\* the fetch of changePlan failed, or its response was rejected
ChangePlanFail(c) ==
    /\ c \in calls
    /\ c.kind = "changePlan"
    /\ calls' = calls \ {c}
    /\ last' = [op |-> "changePlanFail", out |-> "throw"]
    /\ UNCHANGED <<mono, skew, token, cache, heap, schedules, timers, lastFetchOk, lim, storage, instance>>

ClearStoredData ==
    /\ token' = NoToken
    /\ cache' = <<>>
    /\ Commit(ClearSchedules(SchedulerState), calls)
    /\ last' = [op |-> "clearStoredData", out |-> "ok",
                had |-> <<token # NoToken, cache # <<>>, schedules # {}>>]
    /\ UNCHANGED <<mono, skew, lastFetchOk, lim, storage, instance>>

\* ---------------------------------------------------------------------------
\* RefreshScheduler: the timer callback and the public methods
\* ---------------------------------------------------------------------------
\* the scan looks only at entries whose timer is still pending
InProgressRefreshArmedOnly(S, subscriptionId) ==
    \E s \in S.schedules :
        /\ S.heap[s].subscriptionId = subscriptionId
        /\ S.heap[s].inProgress
        /\ s \in DOMAIN S.timers

\* the scan does not compare the subscription
InProgressRefreshAnySubscription(S, subscriptionId) ==
    \E s \in S.schedules : S.heap[s].inProgress

\* the scan requires every entry of the subscription to be in progress
InProgressRefreshEvery(S, subscriptionId) ==
    \A s \in S.schedules :
        S.heap[s].subscriptionId = subscriptionId => S.heap[s].inProgress

\* the scan looks at the wrong flag
InProgressRefreshByCompleted(S, subscriptionId) ==
    \E s \in S.schedules :
        /\ S.heap[s].subscriptionId = subscriptionId
        /\ S.heap[s].completed

\* a sibling of the same subscription is in progress (the scan of this.schedules)
InProgressRefresh(S, subscriptionId) ==
    \E s \in S.schedules :
        /\ S.heap[s].subscriptionId = subscriptionId
        /\ S.heap[s].inProgress

\* the guard allows thirty seconds instead of ten
FiresTooEarlyWide(schedule, now) == schedule.scheduledAt - 3 * STALE_GUARD > now

\* if (schedule.scheduledAt - 10000 > Date.now()) return; // something went wrong
FiresTooEarly(schedule, now) == schedule.scheduledAt - STALE_GUARD > now

\* the platform runs the timer callback of object o
Fire(o) ==
    /\ o \in DOMAIN timers
    /\ mono >= timers[o]
    /\ LET schedule == heap[o]
           S0 == [SchedulerState EXCEPT !.timers = [x \in DOMAIN timers \ {o} |-> timers[x]]]
       IN  IF schedule.completed
           THEN /\ Commit(S0, calls)
                /\ last' = [op |-> "fire", out |-> "completed", obj |-> o]
           ELSE IF FiresTooEarly(schedule, Now)
           THEN /\ Commit(S0, calls)
                /\ last' = [op |-> "fire", out |-> "stale", obj |-> o]
           ELSE IF InProgressRefresh(S0, schedule.subscriptionId)
           THEN /\ Commit(S0, calls)
                /\ last' = [op |-> "fire", out |-> "skip", obj |-> o]
           ELSE IF ~storage
           THEN \* getPurchases() is rejected at once: catch and finally run in the same turn
                /\ Commit(AfterRefreshFail([S0 EXCEPT !.heap[o].inProgress = TRUE],
                                           o, Now, mono), calls)
                /\ last' = [op |-> "fire", out |-> "rejected", obj |-> o]
           ELSE IF token = NoToken
           THEN \* getPurchases() returns [] at once; the callback completes in the same turn
                /\ Commit(AfterRefreshOk([S0 EXCEPT !.heap[o].inProgress = TRUE], o), calls)
                /\ last' = [op |-> "fire", out |-> "empty", obj |-> o]
           ELSE /\ CanCall
                /\ Commit([S0 EXCEPT !.heap[o].inProgress = TRUE],
                          calls \cup {NewCall(calls, "purchases", o)})
                /\ last' = [op |-> "fire", out |-> "fetch", obj |-> o]
    /\ UNCHANGED <<mono, skew, token, cache, lastFetchOk, lim, storage, instance>>

\* scheduleRefresh called directly
ScheduleRefreshOp(subscriptionId, time, reason) ==
    /\ Commit(ScheduleRefresh(SchedulerState, subscriptionId, time, reason, Now, mono), calls)
    /\ last' = [op |-> "scheduleRefresh",
                out |-> IF HasId(SchedulerState, ScheduleId(subscriptionId, time))
                        THEN "noop" ELSE "added",
                id |-> ScheduleId(subscriptionId, time), reason |-> reason]
    /\ UNCHANGED <<mono, skew, token, cache, lastFetchOk, lim, storage, instance>>

\* schedulePurchaseRefreshes called directly
SchedulePurchaseRefreshesOp(purchase) ==
    /\ Commit(SchedulePurchaseRefreshes(SchedulerState, purchase, Now, mono), calls)
    /\ last' = [op |-> "schedulePurchaseRefreshes", out |-> "ok",
                purchase |-> purchase, now |-> Now]
    /\ UNCHANGED <<mono, skew, token, cache, lastFetchOk, lim, storage, instance>>

\* clearSchedules called directly
ClearSchedulesOp ==
    /\ Commit(ClearSchedules(SchedulerState), calls)
    /\ last' = [op |-> "clearSchedules", out |-> "ok"]
    /\ UNCHANGED <<mono, skew, token, cache, lastFetchOk, lim, storage, instance>>

\* ---------------------------------------------------------------------------
\* the state after construction; localStorage outlives the page, so a token of
\* an earlier session may be there
InitWith(bounds) ==
    /\ mono = 0
    /\ skew = 0
    /\ token \in {NoToken, "tok1"}
    /\ cache = <<>>
    /\ heap = EmptyFn
    /\ schedules = {}
    /\ timers = EmptyFn
    /\ calls = {}
    /\ last = [op |-> "construct", out |-> "ok"]
    /\ lastFetchOk = <<>>
    /\ lim = bounds
    /\ storage = TRUE
    /\ instance = "ready"

\* a response carries a new token or none; a storage write happens only with one
TokenWrites(tokens) == {<<NoToken, TRUE>>} \cup (tokens \X BOOLEAN)

\* every operation of IapticStripe on the given inputs
Adapter(subs, expirations, tokens, productLists) ==
    \/ GetProducts
    \/ RefreshProducts
    \/ \E c \in calls, p \in productLists, w \in BOOLEAN : ProductsOk(c, p, w)
    \/ \E c \in calls : ProductsFail(c)
    \/ GetAccessToken
    \/ \E t \in tokens \cup {NoToken} : Order(t)
    \/ \E c \in calls, tw \in TokenWrites(tokens) : OrderOk(c, tw[1], tw[2])
    \/ \E c \in calls : OrderFail(c)
    \/ \E t \in tokens \cup {NoToken} : GetPurchases(t)
    \/ \E c \in calls, p \in PurchasesOf(subs, expirations), tw \in TokenWrites(tokens) :
           PurchasesOk(c, <<p>>, tw[1], tw[2])
    \/ \E c \in calls : PurchasesOk(c, <<>>, NoToken, TRUE)
    \/ \E c \in calls : PurchasesFail(c)
    \/ \E t \in tokens \cup {NoToken} : ChangePlan(t)
    \/ \E c \in calls, p \in PurchasesOf(subs, expirations), tw \in TokenWrites(tokens) :
           ChangePlanOk(c, p, tw[1], tw[2])
    \/ \E c \in calls : ChangePlanFail(c)
    \/ ClearStoredData

\* the public methods of RefreshScheduler, called directly
Scheduler(subs, dates, reasons, expirations) ==
    \/ \E s \in subs, d \in dates, r \in reasons : ScheduleRefreshOp(s, d, r)
    \/ \E p \in PurchasesOf(subs, expirations) : SchedulePurchaseRefreshesOp(p)
    \/ ClearSchedulesOp

\* the whole program on small inputs
Init == InitWith([time |-> SmallMaxTime, objs |-> SmallMaxObjs, calls |-> SmallMaxCalls])

Next ==
    \/ Tick
    \/ Adapter({"s1"}, {2 * EXPIRATION_MARGIN}, {"tok2"}, {<<"p1">>, <<"p2">>})
    \/ \E o \in DOMAIN timers : Fire(o)

Spec == Init /\ [][Next]_vars

\* ---------------------------------------------------------------------------
\* the scheduler as the adapter drives it (its scheduler is a private field):
\* through getPurchases, clearStoredData and the timers.  The product
\* operations and order touch no scheduler state; they and changePlan are in Spec.
\* ---------------------------------------------------------------------------
SchedulerInit == InitWith([time |-> MaxTime, objs |-> MaxObjs, calls |-> MaxCalls])

\* the purchases the backend answers with: one subscription seen just after its
\* expiration and before it, and a second subscription
SchedulerPurchases ==
    {[purchaseId |-> "s1", expirationDate |-> <<0>>],
     [purchaseId |-> "s1", expirationDate |-> <<2 * EXPIRATION_MARGIN>>],
     [purchaseId |-> "s2", expirationDate |-> <<0>>]}

SchedulerNext ==
    \/ Tick
    \/ \E t \in {NoToken, "tok2"} : GetPurchases(t)
    \/ \E c \in calls, p \in SchedulerPurchases, t \in {NoToken, "tok2"} :
           PurchasesOk(c, <<p>>, t, TRUE)
    \/ \E c \in calls : PurchasesOk(c, <<>>, NoToken, TRUE)
    \/ \E c \in calls : PurchasesFail(c)
    \/ ClearStoredData
    \/ \E o \in DOMAIN timers : Fire(o)

SchedulerSpec == SchedulerInit /\ [][SchedulerNext]_vars

\* ---------------------------------------------------------------------------
\* a RefreshScheduler whose public methods are called directly
\* ---------------------------------------------------------------------------
DirectDates == {EXPIRATION_MARGIN, EXPIRATION_MARGIN + RETRY_DELAY, FarExpiration}
DirectReasons == {<<"manual">>, PRE_EXPIRATION}
DirectExpirations == {0, 2 * EXPIRATION_MARGIN, FarExpiration}

DirectNext ==
    \/ Tick
    \/ Scheduler({"s1"}, DirectDates, DirectReasons, DirectExpirations)
    \/ \E c \in calls : PurchasesOk(c, <<>>, NoToken, TRUE)
    \/ \E c \in calls : PurchasesFail(c)
    \/ \E o \in DOMAIN timers : Fire(o)

DirectSpec == SchedulerInit /\ [][DirectNext]_vars

\* ---------------------------------------------------------------------------
\* a RefreshScheduler that is handed purchases while the process keeps running:
\* time passes, the event loop runs the callback of a timer that is due, an
\* awaited fetch settles.  The wall clock may be set back.
\* ---------------------------------------------------------------------------
FairExpirations == {2 * EXPIRATION_MARGIN, FarExpiration}

Settle == \E c \in calls : PurchasesOk(c, <<>>, NoToken, TRUE) \/ PurchasesFail(c)

RunTimer == \E o \in DOMAIN timers : Fire(o)

FairNext ==
    \/ Tick
    \/ ClockBack
    \/ \E p \in PurchasesOf({"s1"}, FairExpirations) : SchedulePurchaseRefreshesOp(p)
    \/ ClearSchedulesOp
    \/ \E c \in calls : PurchasesOk(c, <<>>, NoToken, TRUE)
    \/ \E c \in calls : PurchasesFail(c)
    \/ \E o \in DOMAIN timers : Fire(o)

FairSpec ==
    /\ SchedulerInit
    /\ [][FairNext]_vars
    /\ WF_vars(Tick)
    /\ WF_vars(RunTimer)
    /\ WF_vars(Settle)

\* ---------------------------------------------------------------------------
\* the product cache: getProducts, refreshProducts, clearStoredData
\* ---------------------------------------------------------------------------
ProductsInit == InitWith([time |-> ProductsMaxTime, objs |-> MaxObjs, calls |-> MaxCalls])

ProductLists == {<<"p1">>, <<"p1", "p2">>}

ProductsNext ==
    \/ Tick
    \/ GetProducts
    \/ RefreshProducts
    \/ \E c \in calls, p \in ProductLists, w \in BOOLEAN : ProductsOk(c, p, w)
    \/ \E c \in calls : ProductsFail(c)
    \/ ClearStoredData

ProductsSpec == ProductsInit /\ [][ProductsNext]_vars

\* ---------------------------------------------------------------------------
\* the whole program together with direct calls of the scheduler's methods
\* ---------------------------------------------------------------------------
FullNext ==
    \/ Tick
    \/ Scheduler({"s1"}, {EXPIRATION_MARGIN}, DirectReasons, {2 * EXPIRATION_MARGIN})
    \/ ChangePlan("tok2")
    \/ \E c \in calls, p \in PurchasesOf({"s1"}, {2 * EXPIRATION_MARGIN}) :
           ChangePlanOk(c, p, NoToken, TRUE)
    \/ \E c \in calls : ChangePlanFail(c)
    \/ \E c \in calls : PurchasesOk(c, <<>>, NoToken, TRUE)
    \/ \E c \in calls : PurchasesFail(c)
    \/ \E o \in DOMAIN timers : Fire(o)

FullSpec == Init /\ [][FullNext]_vars

\* ---------------------------------------------------------------------------
\* a backend that fails every purchase fetch, and an application that hands
\* entries to the scheduler and then makes no further calls
\* ---------------------------------------------------------------------------
QuiesceInit == InitWith([time |-> SmallMaxTime, objs |-> ResponseMaxObjs, calls |-> MaxCalls])

QuiesceDelays == {EXPIRATION_MARGIN, 2 * EXPIRATION_MARGIN}

\* time passes; beyond the horizon of the application's calls it passes only
\* while a timer is still to come due
Elapse ==
    /\ \/ mono + TickStep <= lim.time
       \/ \E o \in DOMAIN timers : mono < timers[o]
    /\ mono' = mono + TickStep
    /\ UNCHANGED <<skew, token, cache, heap, schedules, timers, calls, last, lastFetchOk, lim, storage, instance>>

\* the application's calls stop at the horizon; every entry handed over leaves
\* room within the bound on objects for its retry
HandOver ==
    /\ mono < lim.time
    /\ 2 * (Cardinality(DOMAIN heap) + 1) <= lim.objs
    /\ \E s \in {"s1", "s2"}, d \in QuiesceDelays : ScheduleRefreshOp(s, Now + d, <<"manual">>)

FetchFails == \E c \in calls : PurchasesFail(c)

QuiesceNext ==
    \/ Elapse
    \/ ClockBack
    \/ HandOver
    \/ FetchFails
    \/ RunTimer

QuiesceSpec ==
    /\ QuiesceInit
    /\ [][QuiesceNext]_vars
    /\ WF_vars(Elapse)
    /\ WF_vars(RunTimer)
    /\ WF_vars(FetchFails)

\* ---------------------------------------------------------------------------
\* the product operations while the wall clock may be set back
\* ---------------------------------------------------------------------------
ProductsClockNext ==
    \/ ProductsNext
    \/ ClockBack

ProductsClockSpec == ProductsInit /\ [][ProductsClockNext]_vars

\* ---------------------------------------------------------------------------
\* the same scheduler and clocks without the assumptions on scheduling
\* ---------------------------------------------------------------------------
ClockSpec == SchedulerInit /\ [][FairNext]_vars

\* ---------------------------------------------------------------------------
\* a RefreshScheduler that is given a date just beyond the limit of the timer
\* facility: after one tick the date is within the limit
\* ---------------------------------------------------------------------------
NearLimit == SET_TIMEOUT_MAX_DELAY + TickStep
LimitDates == {EXPIRATION_MARGIN, NearLimit}

LimitNext ==
    \/ Tick
    \/ \E d \in LimitDates, r \in DirectReasons : ScheduleRefreshOp("s1", d, r)
    \/ ClearSchedulesOp
    \/ \E c \in calls : PurchasesOk(c, <<>>, NoToken, TRUE)
    \/ \E c \in calls : PurchasesFail(c)
    \/ \E o \in DOMAIN timers : Fire(o)

LimitSpec == SchedulerInit /\ [][LimitNext]_vars

\* ---------------------------------------------------------------------------
\* the responses of the backend: lists of several purchases and rotating
\* credentials, to getPurchases (application or timer), order and changePlan
\* ---------------------------------------------------------------------------
ResponseInit ==
    InitWith([time |-> ResponseMaxTime, objs |-> ResponseMaxObjs, calls |-> SmallMaxCalls])

ResponseP1 == [purchaseId |-> "s1", expirationDate |-> <<2 * EXPIRATION_MARGIN>>]
ResponseP2 == [purchaseId |-> "s2", expirationDate |-> <<0>>]
\* the first subscription after its renewal
ResponseP3 == [purchaseId |-> "s1", expirationDate |-> <<4 * EXPIRATION_MARGIN>>]
ResponseLists ==
    {<<>>, <<ResponseP1>>, <<ResponseP1, ResponseP2>>, <<ResponseP2, ResponseP1>>, <<ResponseP3>>}
ResponseTokens == {"tok2", "tok3"}

ResponseNext ==
    \/ Tick
    \/ \E t \in {NoToken, "tok2"} : GetPurchases(t)
    \/ \E c \in calls, ps \in ResponseLists, tw \in TokenWrites(ResponseTokens) :
           PurchasesOk(c, ps, tw[1], tw[2])
    \/ \E c \in calls : PurchasesFail(c)
    \/ \E t \in {NoToken, "tok2"} : Order(t)
    \/ \E c \in calls, tw \in TokenWrites(ResponseTokens) : OrderOk(c, tw[1], tw[2])
    \/ \E c \in calls : OrderFail(c)
    \/ \E t \in {NoToken, "tok2"} : ChangePlan(t)
    \/ \E c \in calls, p \in {ResponseP1, ResponseP2}, tw \in TokenWrites(ResponseTokens) :
           ChangePlanOk(c, p, tw[1], tw[2])
    \/ \E c \in calls : ChangePlanFail(c)
    \/ \E o \in DOMAIN timers : Fire(o)

ResponseSpec == ResponseInit /\ [][ResponseNext]_vars

\* ---------------------------------------------------------------------------
\* the whole program in a runtime whose localStorage may be inaccessible
\* (blocked by the browser, or absent): every access then throws, and nothing
\* was ever persisted
\* ---------------------------------------------------------------------------
StorageInit ==
    /\ mono = 0
    /\ skew = 0
    /\ storage \in BOOLEAN
    /\ token \in (IF storage THEN {NoToken, "tok1"} ELSE {NoToken})
    /\ cache = <<>>
    /\ heap = EmptyFn
    /\ schedules = {}
    /\ timers = EmptyFn
    /\ calls = {}
    /\ last = [op |-> "construct", out |-> "ok"]
    /\ lastFetchOk = <<>>
    /\ lim = [time |-> SmallMaxTime, objs |-> SmallMaxObjs, calls |-> SmallMaxCalls]
    /\ instance = "ready"

StorageSpec == StorageInit /\ [][Next]_vars

\* ---------------------------------------------------------------------------
\* construction: new IapticStripe(config) and createAdapter(config).  A field
\* that is missing (undefined or empty, both falsy) is "".
\* ---------------------------------------------------------------------------
Configs ==
    [type : {"stripe", "other"},
     stripePublicKey : {"", "pk_test"},
     appName : {"", "app"},
     apiKey : {"", "key"}]

\* the check of apiKey is forgotten
ConstructorErrorIgnoresApiKey(config) ==
    IF config.type # "stripe" THEN "Unsupported adapter type"
    ELSE IF config.stripePublicKey = "" THEN "Missing required Stripe public key"
    ELSE IF config.appName = "" THEN "Missing required Iaptic configuration"
    ELSE ""

\* the error the constructor throws, "" when it throws none
ConstructorError(config) ==
    IF config.type # "stripe" THEN "Unsupported adapter type"
    ELSE IF config.stripePublicKey = "" THEN "Missing required Stripe public key"
    ELSE IF config.appName = "" \/ config.apiKey = "" THEN "Missing required Iaptic configuration"
    ELSE ""

\* the error createAdapter throws
CreateAdapterError(config) ==
    IF config.type = "stripe" THEN ConstructorError(config)
    ELSE "Unsupported adapter type"

Constructed(op, config, error) ==
    /\ instance = "none"
    /\ instance' = IF error = "" THEN "ready" ELSE "failed"
    /\ last' = [op |-> op, out |-> IF error = "" THEN "ok" ELSE "throw",
                error |-> error, config |-> config]
    /\ UNCHANGED <<mono, skew, token, cache, heap, schedules, timers, calls, lastFetchOk, lim, storage>>

\* new IapticStripe(config)
NewIapticStripe(config) == Constructed("new", config, ConstructorError(config))

\* createAdapter(config)
CreateAdapter(config) == Constructed("createAdapter", config, CreateAdapterError(config))

ConstructInit ==
    /\ mono = 0
    /\ skew = 0
    /\ storage \in BOOLEAN
    /\ token \in (IF storage THEN {NoToken, "tok1"} ELSE {NoToken})
    /\ cache = <<>>
    /\ heap = EmptyFn
    /\ schedules = {}
    /\ timers = EmptyFn
    /\ calls = {}
    /\ last = [op |-> "load", out |-> "ok"]
    /\ lastFetchOk = <<>>
    /\ lim = [time |-> SmallMaxTime, objs |-> SmallMaxObjs, calls |-> SmallMaxCalls]
    /\ instance = "none"

ConstructNext ==
    \/ \E config \in Configs : NewIapticStripe(config)
    \/ \E config \in Configs : CreateAdapter(config)
    \/ instance = "ready" /\ Next

ConstructSpec == ConstructInit /\ [][ConstructNext]_vars

\* ===========================================================================
\* Claims
\* ===========================================================================

\* the timer callback of object o starts its refresh in this step
StartsRefresh(o) == Fire(o) /\ last'.out \in {"fetch", "empty", "rejected"}

\* C1: a timer callback for subscription S does not start its refresh while an
\* entry of the collection with the same subscriptionId has inProgress = true,
\* and at most one entry per subscriptionId in the collection has inProgress = true.
C1_NoStartWhileSiblingInProgress ==
    /\ [](\A a, b \in schedules :
            (/\ heap[a].inProgress
             /\ heap[b].inProgress
             /\ heap[a].subscriptionId = heap[b].subscriptionId) => a = b)
    /\ [][\A o \in DOMAIN timers :
            StartsRefresh(o) =>
                ~\E s \in schedules :
                    /\ heap[s].subscriptionId = heap[o].subscriptionId
                    /\ heap[s].inProgress]_vars

\* a callback was just skipped because a sibling of the collection is in progress
C1_Witness ==
    /\ last.op = "fire"
    /\ last.out = "skip"
    /\ \E s \in schedules :
        /\ heap[s].inProgress
        /\ heap[s].subscriptionId = last.obj[1][1]
        /\ s # last.obj

\* the purchase refreshes started by timer callbacks that are in flight for a subscription
SchedulerCalls(subscriptionId) ==
    {c \in calls : /\ c.kind = "purchases"
                   /\ c.by # NoObj
                   /\ heap[c.by].subscriptionId = subscriptionId}

\* C2: at any time at most one scheduler-initiated purchase refresh is in flight
\* per subscriptionId, timers armed before a clear and firing after it included.
C2_AtMostOneInFlight ==
    \A c1 \in calls : c1.by # NoObj =>
        Cardinality(SchedulerCalls(heap[c1.by].subscriptionId)) <= 1

\* ---------------------------------------------------------------------------
\* C3
\* ---------------------------------------------------------------------------
C3Sub == "s1"
C3Expiration == 2 * EXPIRATION_MARGIN
C3Instants == {C3Expiration - EXPIRATION_MARGIN, C3Expiration + EXPIRATION_MARGIN}
C3Keys == {<<ScheduleId(C3Sub, t), n>> : t \in C3Instants, n \in 0 .. (MaxObjs + 1)}

\* the purchase was just handed to schedulePurchaseRefreshes and instant t was
\* still in the future
Handed(t) ==
    /\ last.op = "schedulePurchaseRefreshes"
    /\ last.purchase = [purchaseId |-> C3Sub, expirationDate |-> <<C3Expiration>>]
    /\ t > last.now

\* the timer of instant t, if armed now, is due before the run's clock stops
InHorizon(t) == t - skew <= lim.time

\* a timer callback for instant t has just started its purchase refresh
Refreshed(t) ==
    /\ last.op = "fire"
    /\ last.out \in {"fetch", "empty"}
    /\ last.obj[1] = ScheduleId(C3Sub, t)

\* a timer for instant t is armed that is due after the run's clock stops
PendingAtHorizon(t) ==
    \E o \in DOMAIN timers : o[1] = ScheduleId(C3Sub, t) /\ timers[o] > lim.time

\* the timer callback of object o has just run
Ran(o) == last.op = "fire" /\ last.obj = o

\* C3 (as claimed): for a purchase with expiration date E handed to
\* schedulePurchaseRefreshes, if the process keeps running and timers fire, a
\* purchase refresh is eventually performed for E - 10 s and for E + 10 s, for
\* each of the two instants that was in the future at the hand-over (or the
\* refresh is still pending when the run's clock stops).
C3_EventuallyRefreshedAtBothInstants ==
    \A t \in C3Instants :
        (Handed(t) /\ InHorizon(t)) ~> (Refreshed(t) \/ PendingAtHorizon(t))

\* C3 (amended): for each of the two instants that is in the future, at most
\* SET_TIMEOUT_MAX_DELAY away and not yet in the collection under its id,
\* schedulePurchaseRefreshes arms a timer for that instant; if the process keeps
\* running, the callback of an armed timer eventually runs; and a callback that
\* runs starts a purchase refresh unless its entry is completed, the clock reads
\* more than 10 s before the instant, or an entry of the collection for the same
\* subscription is in progress.
C3_ArmedCallbackRunsAndRefreshesUnlessGuarded ==
    /\ [][\A p \in PurchasesOf({C3Sub}, FairExpirations) :
            (SchedulePurchaseRefreshesOp(p) /\ p.expirationDate # <<>>) =>
                \A t \in {p.expirationDate[1] - EXPIRATION_MARGIN,
                          p.expirationDate[1] + EXPIRATION_MARGIN} :
                    (/\ t > Now
                     /\ t - Now <= SET_TIMEOUT_MAX_DELAY
                     /\ ~\E s \in schedules : heap[s].id = ScheduleId(p.purchaseId, t))
                    => \E o \in schedules' \ schedules :
                           /\ heap'[o].id = ScheduleId(p.purchaseId, t)
                           /\ o \in DOMAIN timers'
                           /\ timers'[o] = mono + (t - Now)]_vars
    /\ \A o \in C3Keys : (o \in DOMAIN timers /\ timers[o] <= lim.time) ~> Ran(o)
    /\ [][\A o \in DOMAIN timers :
            Fire(o) =>
                \/ StartsRefresh(o)
                \/ heap[o].completed
                \/ heap[o].scheduledAt - STALE_GUARD > Now
                \/ \E s \in schedules :
                       /\ heap[s].subscriptionId = heap[o].subscriptionId
                       /\ heap[s].inProgress]_vars

\* the post-expiration callback started its refresh after the pre-expiration
\* one completed
C3_Witness ==
    /\ Refreshed(C3Expiration + EXPIRATION_MARGIN)
    /\ \E s \in schedules :
        /\ heap[s].id = ScheduleId(C3Sub, C3Expiration - EXPIRATION_MARGIN)
        /\ heap[s].completed

\* ---------------------------------------------------------------------------
\* C4, C5
\* ---------------------------------------------------------------------------
\* the getPurchases call c made by a timer callback fails in this step
CallbackFails(c) == PurchasesFail(c) /\ c.by # NoObj

IsRetry(reason) == Len(reason) > 0 /\ reason[1] = "retry-"

\* object o is a new entry: the retry of the schedule that made call c
RetryOf(o, c) ==
    /\ schedules' = schedules \cup {o}
    /\ heap'[o].subscriptionId = heap[c.by].subscriptionId
    /\ heap'[o].reason = <<"retry-">> \o heap[c.by].reason
    /\ heap'[o].scheduledAt = Now + RETRY_DELAY
    /\ o \in DOMAIN timers'
    /\ timers'[o] = mono + RETRY_DELAY

\* C4 (as claimed): whenever the getPurchases call of a timer callback fails and
\* the schedule's reason does not start with 'retry-', exactly one entry is
\* added: same subscriptionId, reason 'retry-' + reason, scheduledAt = failure
\* time + 30 s, and a timer is armed for it.
C4_FailureAddsExactlyOneRetry ==
    [][\A c \in calls :
         (CallbackFails(c) /\ ~IsRetry(heap[c.by].reason)) =>
             \E o \in schedules' \ schedules : RetryOf(o, c)]_vars

\* C4 (amended): ... exactly one such entry is added and armed, unless the
\* collection already holds an entry for the same subscription and the instant
\* failure time + 30 s (same id); then nothing is added and no timer is armed.
C4_FailureAddsOneRetryUnlessIdExists ==
    [][\A c \in calls :
         (CallbackFails(c) /\ ~IsRetry(heap[c.by].reason)) =>
             IF \E s \in schedules :
                    heap[s].id = ScheduleId(heap[c.by].subscriptionId, Now + RETRY_DELAY)
             THEN schedules' = schedules /\ timers' = timers
             ELSE \E o \in schedules' \ schedules :
                      /\ RetryOf(o, c)
                      /\ DOMAIN timers' = DOMAIN timers \cup {o}]_vars

\* a first failure has just put its retry in the collection
C4_Witness ==
    /\ last.op = "purchasesFail"
    /\ last.out = "caught"
    /\ ~IsRetry(last.reason)
    /\ \E o \in schedules :
        /\ heap[o].reason = <<"retry-">> \o last.reason
        /\ heap[o].scheduledAt = Now + RETRY_DELAY
        /\ o \in DOMAIN timers

\* C5: when the getPurchases call of the callback of a schedule whose reason
\* starts with 'retry-' fails, no entry is added and no timer is armed; no
\* schedule has a reason starting with 'retry-retry-'.
C5_RetryFailureSchedulesNothing ==
    /\ [](\A o \in DOMAIN heap :
            ~(/\ Len(heap[o].reason) > 1
              /\ heap[o].reason[1] = "retry-"
              /\ heap[o].reason[2] = "retry-"))
    /\ [][\A c \in calls :
            (CallbackFails(c) /\ IsRetry(heap[c.by].reason)) =>
                schedules' = schedules /\ timers' = timers]_vars

\* the refresh of a retry schedule has just failed
C5_Witness ==
    /\ last.op = "purchasesFail"
    /\ last.out = "caught"
    /\ IsRetry(last.reason)

\* ---------------------------------------------------------------------------
\* C6, C7
\* ---------------------------------------------------------------------------
EntriesWithId(S, h, id) == {o \in S : h[o].id = id}

\* C6: scheduleRefresh is idempotent: after a call exactly one entry of the
\* collection has the id, and a call whose id is already in the collection
\* changes nothing (no entry, no timer).
C6_ScheduleRefreshIdempotent ==
    [][\A s \in {"s1"}, d \in DirectDates, r \in DirectReasons :
         ScheduleRefreshOp(s, d, r) =>
             /\ Cardinality(EntriesWithId(schedules', heap', ScheduleId(s, d))) = 1
             /\ (EntriesWithId(schedules, heap, ScheduleId(s, d)) # {}
                    => UNCHANGED <<heap, schedules, timers>>)]_vars

\* scheduleRefresh was just called a second time with the same arguments
C6_Witness ==
    /\ last.op = "scheduleRefresh"
    /\ last.out = "noop"
    /\ \E o \in schedules :
        /\ heap[o].id = last.id
        /\ heap[o].reason = last.reason
        /\ o \in DOMAIN timers

\* the two schedules of a purchase
PurchaseInstants(purchase) ==
    {<<purchase.expirationDate[1] - EXPIRATION_MARGIN, PRE_EXPIRATION>>,
     <<purchase.expirationDate[1] + EXPIRATION_MARGIN, POST_EXPIRATION>>}

\* C7 (as claimed): for a purchase with expiration date E,
\* schedulePurchaseRefreshes records and arms exactly two schedules (E - 10 s
\* 'pre-expiration', E + 10 s 'post-expiration'), except that a schedule whose
\* target time is not after now is not created; without an expiration date the
\* collection is unchanged and no timer is armed.
C7_RecordsAndArmsBothSchedules ==
    [][\A p \in PurchasesOf({"s1"}, DirectExpirations) :
         SchedulePurchaseRefreshesOp(p) =>
             IF p.expirationDate = <<>>
             THEN UNCHANGED <<schedules, timers>>
             ELSE \A i \in PurchaseInstants(p) :
                      LET now == EntriesWithId(schedules', heap', ScheduleId(p.purchaseId, i[1]))
                          was == EntriesWithId(schedules, heap, ScheduleId(p.purchaseId, i[1]))
                      IN  IF i[1] > Now
                          THEN \E o \in now :
                                   /\ now = {o}
                                   /\ heap'[o].scheduledAt = i[1]
                                   /\ heap'[o].reason = i[2]
                                   /\ o \in DOMAIN timers'
                          ELSE now = was]_vars

\* C7 (amended): ... it creates, for each of the two instants that is after now
\* and whose id (subscription, instant) is not yet in the collection, one
\* schedule with that scheduledAt and reason, and arms it unless its delay
\* exceeds SET_TIMEOUT_MAX_DELAY (then it is recorded, not armed); it creates
\* nothing else and arms nothing else; without an expiration date nothing changes.
C7_RecordsBothArmsWithinLimit ==
    [][\A p \in PurchasesOf({"s1"}, DirectExpirations) :
         SchedulePurchaseRefreshesOp(p) =>
             IF p.expirationDate = <<>>
             THEN UNCHANGED <<heap, schedules, timers>>
             ELSE /\ \A i \in PurchaseInstants(p) :
                      LET now == EntriesWithId(schedules', heap', ScheduleId(p.purchaseId, i[1]))
                          was == EntriesWithId(schedules, heap, ScheduleId(p.purchaseId, i[1]))
                      IN  IF i[1] > Now /\ was = {}
                          THEN \E o \in now :
                                   /\ now = {o}
                                   /\ heap'[o].scheduledAt = i[1]
                                   /\ heap'[o].reason = i[2]
                                   /\ ~heap'[o].completed
                                   /\ ~heap'[o].inProgress
                                   /\ IF i[1] - Now <= SET_TIMEOUT_MAX_DELAY
                                      THEN /\ o \in DOMAIN timers'
                                           /\ timers'[o] = mono + (i[1] - Now)
                                      ELSE o \notin DOMAIN timers'
                          ELSE now = was
                  /\ \A o \in schedules' \ schedules :
                         \E i \in PurchaseInstants(p) :
                             heap'[o].id = ScheduleId(p.purchaseId, i[1])
                  /\ schedules \subseteq schedules'
                  /\ \A o \in DOMAIN timers : o \in DOMAIN timers' /\ timers'[o] = timers[o]
                  /\ DOMAIN timers' \subseteq DOMAIN timers \cup schedules']_vars

\* a purchase was just handed over both of whose schedules are recorded and armed
C7_Witness ==
    /\ last.op = "schedulePurchaseRefreshes"
    /\ last.purchase.expirationDate # <<>>
    /\ \A i \in PurchaseInstants(last.purchase) :
           \E o \in schedules :
               /\ heap[o].id = ScheduleId(last.purchase.purchaseId, i[1])
               /\ heap[o].reason = i[2]
               /\ o \in DOMAIN timers
               /\ timers[o] = i[1]

\* ---------------------------------------------------------------------------
\* C8
\* ---------------------------------------------------------------------------
\* C8: immediately after clearStoredData() returns, the persisted credential is
\* absent, the product cache is absent and the schedule collection is empty.
C8_ClearStoredDataLeavesNothing ==
    last.op = "clearStoredData" =>
        /\ token = NoToken
        /\ cache = <<>>
        /\ schedules = {}

\* clearStoredData has just returned after a credential, a product cache and a
\* schedule were there
C8_Witness ==
    /\ last.op = "clearStoredData"
    /\ last.had = <<TRUE, TRUE, TRUE>>

\* ---------------------------------------------------------------------------
\* C9, C10
\* ---------------------------------------------------------------------------
\* C9 (as claimed): if refreshProducts() fetched successfully at time t and is
\* called again before t + 60 s, the second call returns the cached products
\* without contacting the backend.
C9_NoCallWithinWindowOfFetch ==
    [][(/\ RefreshProducts
        /\ lastFetchOk # <<>>
        /\ Now < lastFetchOk[1] + PRODUCTS_FRESHNESS)
       => /\ calls' = calls
          /\ last'.out = "cached"]_vars

\* C9 (amended): if a cache entry is stored whose fetchedAt is less than 60 s
\* before now, refreshProducts() returns its products without contacting the
\* backend; that is the case from a successful fetch at time t until t + 60 s
\* when the cache write of that fetch succeeded and clearStoredData() has not
\* been called since.
C9_NoCallWhileCacheEntryFresh ==
    /\ [][(/\ RefreshProducts
           /\ cache # <<>>
           /\ Now < cache[1].fetchedAt + PRODUCTS_FRESHNESS)
          => /\ calls' = calls
             /\ last'.out = "cached"
             /\ last'.ret = cache[1].products]_vars
    /\ [][\A c \in calls, p \in ProductLists :
            ProductsOk(c, p, TRUE) => cache' = <<[products |-> p, fetchedAt |-> Now]>>]_vars
    /\ [][(cache # <<>> /\ cache' # cache) =>
            \/ ClearStoredData
            \/ \E c \in calls, p \in ProductLists : ProductsOk(c, p, TRUE)]_vars

\* refreshProducts() has just answered from a cache entry fetched earlier
C9_Witness ==
    /\ last.op = "refreshProducts"
    /\ last.out = "cached"
    /\ cache # <<>>
    /\ cache[1].fetchedAt < Now
    /\ lastFetchOk = <<cache[1].fetchedAt>>
    /\ calls = {}

\* C10: every call to refreshProducts() contacts the backend.
C10_RefreshProductsAlwaysFetches ==
    [][RefreshProducts => calls' # calls]_vars

\* ---------------------------------------------------------------------------
\* C11, C12
\* ---------------------------------------------------------------------------
\* the products fetches in flight
ProductsCalls(cs) == {c \in cs : c.kind = "products"}

\* getProducts with a cache entry answers from it, whatever its age, without a
\* backend call; without an entry it starts exactly one fetch
GetProductsUsesCacheOrFetchesOnce ==
    GetProducts =>
        IF cache # <<>>
        THEN /\ calls' = calls
             /\ last'.out = "cached"
             /\ last'.ret = cache[1].products
        ELSE /\ Cardinality(ProductsCalls(calls')) = Cardinality(ProductsCalls(calls)) + 1
             /\ calls \subseteq calls'
             /\ cache' = cache

\* C11 (as claimed): getProducts() returns the cached products without
\* contacting the backend whenever a cache entry exists, whatever its age; with
\* no entry it performs exactly one fetch, stores the result and returns it.
C11_GetProductsCachedOrFetchedAndStored ==
    [][/\ GetProductsUsesCacheOrFetchesOnce
       /\ \A c \in calls, p \in ProductLists, w \in BOOLEAN :
            ProductsOk(c, p, w) =>
                /\ last'.ret = p
                /\ cache' = <<[products |-> p, fetchedAt |-> Now]>>]_vars

\* C11 (amended): ... with no entry it performs exactly one fetch; when the
\* fetch succeeds it returns the fetched products and stores them in the cache
\* unless the storage write fails (then the cache is left as it was); when the
\* fetch fails the error goes to the caller and the cache is left as it was.
C11_GetProductsCachedOrFetchedStoredIfWritable ==
    [][/\ GetProductsUsesCacheOrFetchesOnce
       /\ \A c \in calls, p \in ProductLists, w \in BOOLEAN :
            ProductsOk(c, p, w) =>
                /\ last'.ret = p
                /\ \/ cache' = <<[products |-> p, fetchedAt |-> Now]>>
                   \/ ~w /\ cache' = cache
       /\ \A c \in calls :
            ProductsFail(c) => last'.out = "throw" /\ cache' = cache]_vars

\* getProducts() has just answered from an entry older than the freshness window
C11_Witness ==
    /\ last.op = "getProducts"
    /\ last.out = "cached"
    /\ cache # <<>>
    /\ cache[1].fetchedAt + PRODUCTS_FRESHNESS <= Now
    /\ last.ret = cache[1].products
    /\ calls = {}

\* C12: getPurchases() with no credential argument while none is persisted
\* returns an empty sequence without contacting the backend and without an
\* error, and leaves the credential, the product cache and the schedule
\* collection unchanged.
C12_NoCredentialNoCall ==
    [][(GetPurchases(NoToken) /\ token = NoToken) =>
          /\ last'.out = "empty"
          /\ calls' = calls
          /\ UNCHANGED <<token, cache, heap, schedules, timers>>]_vars

\* ---------------------------------------------------------------------------
\* C15
\* ---------------------------------------------------------------------------
\* C15: when the backend call inside refreshProducts() fails, the error is
\* propagated to the caller and the product cache entry is exactly what it was
\* before the call.
C15_FailedFetchKeepsCache ==
    [][\A c \in calls :
         (c.kind = "products" /\ c \notin calls' /\ last'.op = "productsFail") =>
             /\ last'.out = "throw"
             /\ cache' = cache]_vars

\* a fetch has just failed while a stale entry is in the cache
C15_Witness ==
    /\ last.op = "productsFail"
    /\ cache # <<>>
    /\ cache[1].fetchedAt + PRODUCTS_FRESHNESS <= Now

\* ---------------------------------------------------------------------------
\* C16
\* ---------------------------------------------------------------------------
\* C16: a persistence failure is never fatal: when a storage read fails,
\* getAccessToken(), getPurchases() and getProducts() behave as if the
\* credential or cache entry were absent instead of raising an error, and when
\* a storage write fails the operation that triggered it still returns its result.
C16_StorageFailureNeverFatal ==
    /\ (~storage /\ last.op = "getAccessToken") => (last.out = "ok" /\ last.ret = NoToken)
    /\ (~storage /\ last.op = "getPurchases") => last.out \in {"empty", "fetch"}
    /\ (~storage /\ last.op = "getProducts") => last.out = "fetch"
    /\ (~storage /\ last.op \in {"productsOk", "purchasesOk", "orderOk", "changePlanOk"})
           => last.out = "ok"

\* ---------------------------------------------------------------------------
\* C18
\* ---------------------------------------------------------------------------
\* the messages of the requirements a configuration does not meet
ConfigErrors(config) ==
    (IF config.type # "stripe" THEN {"Unsupported adapter type"} ELSE {})
    \cup (IF config.stripePublicKey = "" THEN {"Missing required Stripe public key"} ELSE {})
    \cup (IF config.appName = "" \/ config.apiKey = ""
          THEN {"Missing required Iaptic configuration"} ELSE {})

\* C18: constructing the adapter fails synchronously with an error, and no
\* instance or scheduler exists afterwards, when the type is not 'stripe', when
\* stripePublicKey is missing, or when appName or apiKey is missing, with the
\* message of a requirement that is not met; no backend call or storage access
\* happens during construction.
C18_ConstructionFailsOnBadConfig ==
    /\ [][\A config \in Configs :
            (NewIapticStripe(config) \/ CreateAdapter(config)) =>
                /\ IF ConfigErrors(config) # {}
                   THEN /\ instance' = "failed"
                        /\ last'.out = "throw"
                        /\ last'.error \in ConfigErrors(config)
                   ELSE instance' = "ready"
                /\ UNCHANGED <<token, cache, calls, heap, schedules, timers>>]_vars
    /\ [](instance # "ready" =>
            /\ calls = {}
            /\ schedules = {}
            /\ DOMAIN timers = {}
            /\ DOMAIN heap = {})
    /\ [][instance = "failed" => instance' = "failed"]_vars

\* the constructor has just thrown because only apiKey is missing
C18_Witness ==
    /\ instance = "failed"
    /\ last.out = "throw"
    /\ last.error = "Missing required Iaptic configuration"
    /\ last.config = [type |-> "stripe", stripePublicKey |-> "pk_test",
                      appName |-> "app", apiKey |-> ""]

\* ---------------------------------------------------------------------------
\* C13
\* ---------------------------------------------------------------------------
\* the two instants around the expiration of a purchase that are after now
FutureInstants(purchase, now) ==
    IF purchase.expirationDate = <<>> THEN {}
    ELSE {t \in {purchase.expirationDate[1] - EXPIRATION_MARGIN,
                 purchase.expirationDate[1] + EXPIRATION_MARGIN} : t > now}

\* C13: when getPurchases succeeds, at the moment it returns the collection
\* contains, for each returned purchase with expiration E, an entry for each of
\* E - 10 000 ms and E + 10 000 ms that was in the future at response time.
C13_EveryReturnedPurchaseScheduled ==
    [][\A c \in calls, ps \in ResponseLists, tw \in TokenWrites(ResponseTokens) :
          PurchasesOk(c, ps, tw[1], tw[2]) =>
              \A i \in 1 .. Len(ps) : \A t \in FutureInstants(ps[i], Now) :
                  \E o \in schedules' :
                      /\ heap'[o].id = ScheduleId(ps[i].purchaseId, t)
                      /\ heap'[o].subscriptionId = ps[i].purchaseId
                      /\ heap'[o].scheduledAt = t]_vars

\* a response with two purchases has been processed at time 0: both instants of
\* the first and the one future instant of the second are in the collection
C13_Witness ==
    /\ last.op = "purchasesOk"
    /\ Now = 0
    /\ {heap[o].id : o \in schedules}
           = {ScheduleId("s1", EXPIRATION_MARGIN), ScheduleId("s1", 3 * EXPIRATION_MARGIN),
              ScheduleId("s2", EXPIRATION_MARGIN)}

\* ---------------------------------------------------------------------------
\* C14
\* ---------------------------------------------------------------------------
\* a response to getPurchases, order or changePlan that is accepted and carries
\* the credential newToken is processed; written tells whether the write succeeds
CredentialResponse(newToken, written) ==
    \E c \in calls :
        \/ \E ps \in ResponseLists : PurchasesOk(c, ps, newToken, written)
        \/ OrderOk(c, newToken, written)
        \/ \E p \in {ResponseP1, ResponseP2} : ChangePlanOk(c, p, newToken, written)

\* C14: whenever a backend response to getPurchases, order or changePlan
\* carries a new credential, the persisted credential is overwritten with it
\* unconditionally (last-write-wins).
C14_ResponseCredentialOverwrites ==
    [][\A newToken \in ResponseTokens, written \in BOOLEAN :
          CredentialResponse(newToken, written) => token' = newToken]_vars

\* C14 (amended): the credential of an accepted response overwrites the
\* persisted one when the storage write succeeds; when the write fails, when the
\* response carries no credential or when the response is rejected, the
\* persisted credential stays what it was; nothing else in these operations
\* changes it.
C14_ResponseCredentialOverwritesIfWritten ==
    /\ [][\A newToken \in ResponseTokens, written \in BOOLEAN :
            CredentialResponse(newToken, written) =>
                token' = IF written THEN newToken ELSE token]_vars
    /\ [][CredentialResponse(NoToken, TRUE) => token' = token]_vars
    /\ [][(\E c \in calls : PurchasesFail(c) \/ OrderFail(c) \/ ChangePlanFail(c))
              => token' = token]_vars
    /\ [][token' # token => last'.op \in {"purchasesOk", "orderOk", "changePlanOk"}]_vars

\* a response to a timer-driven getPurchases has just replaced the credential
C14_Witness ==
    /\ last.op = "purchasesOk"
    /\ last.obj # NoObj
    /\ token = "tok3"

\* ---------------------------------------------------------------------------
\* C17
\* ---------------------------------------------------------------------------
\* object o has no timer, no refresh in progress and is not completed
Dormant(h, ts, cs, o) ==
    /\ o \notin DOMAIN ts
    /\ ~h[o].inProgress
    /\ ~h[o].completed
    /\ \A c \in cs : c.by # o

\* an entry that is dormant stays dormant as long as it exists: it is never
\* completed and no backend call is made for it
DormantStaysDormant ==
    \A o \in (DOMAIN heap) \cap (DOMAIN heap') :
        Dormant(heap, timers, calls, o) => Dormant(heap', timers', calls', o)

\* C17: scheduleRefresh with a date that is not after now records the entry in
\* the collection, arms no timer, and the entry's completed flag remains false
\* in every later state; no backend call is ever made for it.
C17_PastDateRecordedNeverRuns ==
    /\ [][\A s \in {"s1"}, d \in DirectDates, r \in DirectReasons :
            (ScheduleRefreshOp(s, d, r) /\ d <= Now) =>
                /\ timers' = timers
                /\ \E o \in schedules' : heap'[o].id = ScheduleId(s, d)
                /\ \A o \in schedules' :
                       heap'[o].id = ScheduleId(s, d) => Dormant(heap', timers', calls', o)]_vars
    /\ [][DormantStaysDormant]_vars

\* C17 (amended): scheduleRefresh with a date that is not after now and an id
\* that is not yet in the collection adds one entry, not completed and not in
\* progress, arms no timer and makes no call; the entry stays not completed and
\* without a call for as long as it exists.  With an id that is already in the
\* collection the call changes nothing.
C17_NewPastDateRecordedNeverRuns ==
    /\ [][\A s \in {"s1"}, d \in DirectDates, r \in DirectReasons :
            (ScheduleRefreshOp(s, d, r) /\ d <= Now) =>
                IF HasId(SchedulerState, ScheduleId(s, d))
                THEN UNCHANGED <<heap, schedules, timers, calls>>
                ELSE /\ timers' = timers
                     /\ calls' = calls
                     /\ \E o \in schedules' \ schedules :
                            /\ schedules' = schedules \cup {o}
                            /\ heap'[o].id = ScheduleId(s, d)
                            /\ heap'[o].scheduledAt = d
                            /\ heap'[o].reason = r
                            /\ Dormant(heap', timers', calls', o)]_vars
    /\ [][DormantStaysDormant]_vars

\* an entry with a past date was just added and has no timer
C17_Witness ==
    /\ last.op = "scheduleRefresh"
    /\ last.out = "added"
    /\ last.id[2] <= Now
    /\ \E o \in schedules :
        /\ heap[o].id = last.id
        /\ Dormant(heap, timers, calls, o)

\* ---------------------------------------------------------------------------
\* C19
\* ---------------------------------------------------------------------------
\* another entry of the collection with the subscription of o is in progress
SiblingInProgress(o) ==
    \E s \in schedules :
        /\ s # o
        /\ heap[s].subscriptionId = heap[o].subscriptionId
        /\ heap[s].inProgress

\* C19: when a timer fires for a schedule while another entry of the collection
\* with the same subscriptionId is in progress, the callback makes no backend
\* call, changes no completed or inProgress flag of any entry, adds no entry and
\* arms no timer; the skipped entry stays not completed permanently.
C19_SkipChangesNothing ==
    /\ [][\A o \in DOMAIN timers :
            (Fire(o) /\ SiblingInProgress(o)) =>
                /\ calls' = calls
                /\ schedules' = schedules
                /\ DOMAIN timers' = DOMAIN timers \ {o}
                /\ DOMAIN heap' \subseteq DOMAIN heap
                /\ \A x \in DOMAIN heap' : heap'[x] = heap[x]
                /\ o \in DOMAIN heap' => Dormant(heap', timers', calls', o)]_vars
    /\ [][DormantStaysDormant]_vars

\* the callback of an entry of the collection was just skipped: the entry has
\* no timer any more and is not completed, its sibling is still in progress
C19_Witness ==
    /\ last.op = "fire"
    /\ last.out = "skip"
    /\ last.obj \in schedules
    /\ Dormant(heap, timers, calls, last.obj)
    /\ SiblingInProgress(last.obj)

\* ---------------------------------------------------------------------------
\* C20
\* ---------------------------------------------------------------------------
\* the getPurchases call started by the timer callback of o resolves
\* successfully in this step: its fetch is answered with ok, or there was no
\* credential and it returned the empty list at once
OwnRefreshSucceeds(o) ==
    \/ /\ last'.op = "purchasesOk"
       /\ last'.obj = o
       /\ \E c \in calls \ calls' : c.by = o
    \/ /\ Fire(o)
       /\ last'.out = "empty"

\* C20: a schedule's completed flag becomes true only after the getPurchases
\* call started by its own timer callback has resolved successfully; it is
\* never set on failure, on skip or when a guard trips, and once true it never
\* becomes false again.
C20_CompletedOnlyByOwnSuccess ==
    /\ [][\A o \in DOMAIN heap' :
            IF o \in DOMAIN heap
            THEN /\ (~heap[o].completed /\ heap'[o].completed) => OwnRefreshSucceeds(o)
                 /\ heap[o].completed => heap'[o].completed
            ELSE ~heap'[o].completed]_vars
    /\ [][(\/ \E c \in calls : PurchasesFail(c)
           \/ \E o \in DOMAIN timers :
                  Fire(o) /\ last'.out \in {"skip", "stale", "completed", "rejected"})
              => \A o \in (DOMAIN heap) \cap (DOMAIN heap') :
                     heap'[o].completed = heap[o].completed]_vars

\* the fetch started by a timer callback was just answered: its entry is completed
C20_Witness ==
    /\ last.op = "purchasesOk"
    /\ last.obj \in schedules
    /\ heap[last.obj].completed
    /\ ~heap[last.obj].inProgress

\* ---------------------------------------------------------------------------
\* C21
\* ---------------------------------------------------------------------------
\* the getPurchases call of the timer callback of o fails in this step: its
\* fetch fails, or the call is rejected at once
OwnRefreshFails(o) ==
    \/ \E c \in calls : c.by = o /\ PurchasesFail(c)
    \/ Fire(o) /\ last'.out = "rejected"

\* C21: a failure of the getPurchases call inside a timer callback is caught
\* there and never propagated out of the callback; afterwards the failing entry
\* has inProgress = false and completed = false, and it is never run again.
C21_CallbackFailureCaughtEntryAbandoned ==
    /\ [][\A o \in DOMAIN heap :
            OwnRefreshFails(o) =>
                /\ last'.out \in {"caught", "rejected"}
                /\ last'.obj = o
                /\ o \in DOMAIN heap' => Dormant(heap', timers', calls', o)
                /\ o \in schedules => o \in schedules']_vars
    /\ [][DormantStaysDormant]_vars

\* the fetch of a callback has just failed: its entry is in the collection,
\* neither in progress nor completed, and has no timer
C21_Witness ==
    /\ last.op = "purchasesFail"
    /\ last.out = "caught"
    /\ last.obj \in schedules
    /\ Dormant(heap, timers, calls, last.obj)

\* ---------------------------------------------------------------------------
\* C22
\* ---------------------------------------------------------------------------
\* the entries of the collection whose callback started a backend call that
\* has not returned
Hung == {c.by : c \in {x \in calls : x.by # NoObj /\ x.by \in schedules}}

\* C22: while the backend call started by a timer callback for subscription S
\* has not returned, that entry keeps inProgress = true and, as long as the
\* collection is not cleared, every timer firing for S is skipped: no further
\* scheduler-initiated refresh for S is started.
C22_HungCallBlocksItsSubscription ==
    /\ [](\A c \in calls : c.by # NoObj => heap[c.by].inProgress /\ ~heap[c.by].completed)
    /\ [][\A o \in DOMAIN timers :
            (Fire(o) /\ \E h \in Hung : heap[h].subscriptionId = heap[o].subscriptionId) =>
                /\ last'.out \in {"skip", "stale", "completed"}
                /\ calls' = calls
                /\ Hung' = Hung]_vars

\* the post-expiration probe of a subscription was just skipped while the call
\* of the pre-expiration entry of that subscription has not returned
C22_Witness ==
    /\ last.op = "fire"
    /\ last.out = "skip"
    /\ heap[last.obj].reason = POST_EXPIRATION
    /\ \E h \in Hung :
        /\ heap[h].subscriptionId = heap[last.obj].subscriptionId
        /\ heap[h].reason = PRE_EXPIRATION
        /\ heap[h].inProgress

\* ---------------------------------------------------------------------------
\* C26
\* ---------------------------------------------------------------------------
\* an entry of the collection with this subscription is in progress
SubscriptionInProgress(subscriptionId) ==
    \E s \in schedules :
        heap[s].subscriptionId = subscriptionId /\ heap[s].inProgress

\* C26: when a timer fires for subscription S2 while a refresh for a different
\* subscription S1 is in progress and no entry for S2 is in progress, the S2
\* callback starts its own refresh (unless it is completed or the stale guard trips).
C26_OtherSubscriptionDoesNotBlock ==
    [][\A o \in DOMAIN timers :
          (/\ Fire(o)
           /\ ~heap[o].completed
           /\ ~(heap[o].scheduledAt - STALE_GUARD > Now)
           /\ ~SubscriptionInProgress(heap[o].subscriptionId)
           /\ \E s \in schedules :
                  heap[s].inProgress /\ heap[s].subscriptionId # heap[o].subscriptionId)
          => /\ StartsRefresh(o)
             /\ last'.out = "fetch" => \E c \in calls' \ calls : c.by = o /\ c.kind = "purchases"
             /\ last'.out = "fetch" => heap'[o].inProgress]_vars

\* refreshes of two different subscriptions are in flight at the same time
C26_Witness ==
    /\ last.op = "fire"
    /\ last.out = "fetch"
    /\ \E c1, c2 \in calls :
        /\ c1.by = last.obj
        /\ c2.by # NoObj
        /\ c2.by \in schedules
        /\ heap[c2.by].subscriptionId # heap[c1.by].subscriptionId
        /\ heap[c1.by].inProgress
        /\ heap[c2.by].inProgress

\* ---------------------------------------------------------------------------
\* C23
\* ---------------------------------------------------------------------------
\* an entry of the collection with this id exists, and every such entry has no
\* timer, no call and no flag set
RecordedUnarmed(h, sch, ts, cs, id) ==
    /\ \E o \in sch : h[o].id = id
    /\ \A o \in sch : h[o].id = id => Dormant(h, ts, cs, o)

\* C23: scheduleRefresh with a date more than 2147483647 ms after now records
\* the entry, raises no error, arms no timer, and the entry stays not completed;
\* no later scheduleRefresh call for the same subscriptionId and date arms a
\* timer for it either.
C23_BeyondLimitRecordedNeverArmed ==
    /\ [][\A d \in LimitDates, r \in DirectReasons :
            (ScheduleRefreshOp("s1", d, r) /\ d - Now > SET_TIMEOUT_MAX_DELAY) =>
                /\ last'.out \in {"added", "noop"}
                /\ timers' = timers
                /\ calls' = calls
                /\ RecordedUnarmed(heap', schedules', timers', calls', ScheduleId("s1", d))]_vars
    /\ [][\A d \in LimitDates, r \in DirectReasons :
            (/\ ScheduleRefreshOp("s1", d, r)
             /\ RecordedUnarmed(heap, schedules, timers, calls, ScheduleId("s1", d))) =>
                UNCHANGED <<heap, schedules, timers, calls>>]_vars
    /\ [][DormantStaysDormant]_vars

\* scheduleRefresh was just repeated for a date that was beyond the limit when
\* it was recorded and is within the limit now: the entry still has no timer
C23_Witness ==
    /\ last.op = "scheduleRefresh"
    /\ last.out = "noop"
    /\ last.id = ScheduleId("s1", NearLimit)
    /\ NearLimit - Now <= SET_TIMEOUT_MAX_DELAY
    /\ RecordedUnarmed(heap, schedules, timers, calls, last.id)

\* ---------------------------------------------------------------------------
\* C24
\* ---------------------------------------------------------------------------
\* C24: when a timer callback runs more than 10 000 ms before the entry's
\* scheduledAt, or for an entry whose completed flag is already true, it returns
\* without a backend call, without changing any entry and without arming or
\* recording any schedule.
C24_GuardedCallbackChangesNothing ==
    [][\A o \in DOMAIN timers :
          (Fire(o) /\ (heap[o].scheduledAt - STALE_GUARD > Now \/ heap[o].completed)) =>
              /\ last'.out \in {"stale", "completed"}
              /\ calls' = calls
              /\ schedules' = schedules
              /\ DOMAIN timers' = DOMAIN timers \ {o}
              /\ \A x \in DOMAIN timers' : timers'[x] = timers[x]
              /\ DOMAIN heap' \subseteq DOMAIN heap
              /\ \A x \in DOMAIN heap' : heap'[x] = heap[x]]_vars

\* a callback has just returned at the guard: the wall clock was set back, so
\* it ran more than 10 000 ms before scheduledAt; its entry is untouched
C24_Witness ==
    /\ last.op = "fire"
    /\ last.out = "stale"
    /\ last.obj \in schedules
    /\ heap[last.obj].scheduledAt - STALE_GUARD > Now
    /\ Dormant(heap, timers, calls, last.obj)

\* ---------------------------------------------------------------------------
\* C25
\* ---------------------------------------------------------------------------
\* C25: after clearStoredData(), a timer that was armed before the clear and
\* fires afterwards is harmless: provided no new credential has been persisted
\* since the clear, its getPurchases call finds no stored credential, returns
\* empty without contacting the backend, and adds no entry to the collection.
C25_TimerAfterClearHarmless ==
    [][\A o \in DOMAIN timers :
          (Fire(o) /\ o \notin schedules /\ token = NoToken) =>
              /\ last'.out \in {"empty", "skip", "stale", "completed"}
              /\ calls' = calls
              /\ schedules' = schedules
              /\ DOMAIN timers' = DOMAIN timers \ {o}]_vars

\* ---------------------------------------------------------------------------
\* C27
\* ---------------------------------------------------------------------------
\* the backend call c of an operation invoked by the application fails
CallerCallFails(c) ==
    /\ c.by = NoObj
    /\ \/ ProductsFail(c)
       \/ PurchasesFail(c)
       \/ OrderFail(c)
       \/ ChangePlanFail(c)

\* an operation invoked by the application goes to the backend
CallerFetches ==
    /\ calls' # calls
    /\ last'.op \in {"refreshProducts", "getProducts", "getPurchases", "order", "changePlan"}
    /\ last'.out = "fetch"

\* C27: a caller-invoked refreshProducts, getPurchases, order or changePlan
\* whose backend call fails performs exactly one backend call, propagates the
\* error to the caller, and leaves the persisted credential, the product cache
\* and the schedule collection unchanged.
C27_CallerFailurePropagatesChangesNothing ==
    /\ [][\A c \in calls :
            CallerCallFails(c) =>
                /\ last'.out = "throw"
                /\ calls' = calls \ {c}
                /\ UNCHANGED <<token, cache, heap, schedules, timers>>]_vars
    /\ [][CallerFetches =>
            /\ \E c \in calls' \ calls : calls' = calls \cup {c} /\ c.by = NoObj
            /\ UNCHANGED <<token, cache, heap, schedules, timers>>]_vars

\* changePlan has just failed while a credential, products and a schedule are kept
C27_Witness ==
    /\ last.op = "changePlanFail"
    /\ last.out = "throw"
    /\ token # NoToken
    /\ cache # <<>>
    /\ schedules # {}
    /\ calls = {}

\* ---------------------------------------------------------------------------
\* C28
\* ---------------------------------------------------------------------------
\* C28: when the getPurchases call made by a timer callback returns a purchase
\* whose expiration date E' lies in the future, the collection contains entries
\* for E' - 10 000 ms and E' + 10 000 ms (those still in the future) by the
\* time the firing entry is marked completed.
C28_SchedulerRefreshClosesLoop ==
    [][\A c \in calls, ps \in ResponseLists, tw \in TokenWrites(ResponseTokens) :
          (c.by # NoObj /\ PurchasesOk(c, ps, tw[1], tw[2])) =>
              /\ c.by \in DOMAIN heap' => heap'[c.by].completed /\ ~heap'[c.by].inProgress
              /\ \A i \in 1 .. Len(ps) : \A t \in FutureInstants(ps[i], Now) :
                     \E o \in schedules' :
                         /\ heap'[o].id = ScheduleId(ps[i].purchaseId, t)
                         /\ heap'[o].scheduledAt = t
                         /\ ~heap'[o].completed]_vars

\* the refresh started by the pre-expiration timer has just returned the
\* renewed subscription: the entry is completed and the two instants around the
\* new expiration are in the collection with their timers
C28_Witness ==
    /\ last.op = "purchasesOk"
    /\ last.obj \in schedules
    /\ heap[last.obj].completed
    /\ heap[last.obj].reason = PRE_EXPIRATION
    /\ \A t \in {3 * EXPIRATION_MARGIN, 5 * EXPIRATION_MARGIN} :
           \E o \in schedules :
               /\ heap[o].id = ScheduleId("s1", t)
               /\ o \in DOMAIN timers
               /\ t > Now

\* ---------------------------------------------------------------------------
\* C29
\* ---------------------------------------------------------------------------
\* the purchases changePlan is answered with
PlanPurchases == PurchasesOf({"s1"}, {2 * EXPIRATION_MARGIN})

\* C29: changePlan with no credential supplied and none persisted raises 'No
\* access token available' without contacting the backend and without changing
\* any state; on success it stores a new credential if one is returned (and the
\* write succeeds), passes the returned purchase to schedulePurchaseRefreshes
\* and additionally records a 'post-change-verification' schedule for that
\* purchase at now + 10 000 ms (unless an entry for that instant exists).
C29_ChangePlanContract ==
    /\ [][(ChangePlan(NoToken) /\ token = NoToken) =>
            /\ last'.out = "throw"
            /\ last'.error = "No access token available"
            /\ UNCHANGED <<token, cache, heap, schedules, timers, calls>>]_vars
    /\ [][\A c \in calls, p \in PlanPurchases, tw \in TokenWrites({"tok2"}) :
            ChangePlanOk(c, p, tw[1], tw[2]) =>
                /\ token' = IF tw[1] # NoToken /\ tw[2] THEN tw[1] ELSE token
                /\ \A t \in FutureInstants(p, Now) :
                       \E o \in schedules' : heap'[o].id = ScheduleId(p.purchaseId, t)
                /\ \E o \in schedules' :
                       /\ heap'[o].id = ScheduleId(p.purchaseId, Now + POST_CHANGE_DELAY)
                       /\ \/ heap'[o].reason = POST_CHANGE
                          \/ o \in schedules
                          \/ Now + POST_CHANGE_DELAY \in FutureInstants(p, Now)]_vars

\* ---------------------------------------------------------------------------
\* C30
\* ---------------------------------------------------------------------------
\* C30: the id of a schedule is determined by subscriptionId and target
\* millisecond only: a scheduleRefresh call for a subscriptionId and date that
\* already have an entry is a no-op even when the reason differs, so the first
\* entry (and its reason) is kept and no second timer is armed.
C30_SameInstantOtherReasonIsNoop ==
    /\ [](\A o \in schedules :
            /\ heap[o].id = ScheduleId(heap[o].subscriptionId, heap[o].scheduledAt)
            /\ \A x \in schedules : heap[x].id = heap[o].id => x = o)
    /\ [][\A d \in LimitDates, r \in DirectReasons :
            (/\ ScheduleRefreshOp("s1", d, r)
             /\ \E o \in schedules :
                    heap[o].id = ScheduleId("s1", d) /\ heap[o].reason # r) =>
                /\ last'.out = "noop"
                /\ UNCHANGED <<heap, schedules, timers, calls>>]_vars

\* scheduleRefresh was just called with another reason for an instant that has
\* an armed entry: the entry has kept its reason and its timer
C30_Witness ==
    /\ last.op = "scheduleRefresh"
    /\ last.out = "noop"
    /\ \E o \in schedules :
        /\ heap[o].id = last.id
        /\ heap[o].reason # last.reason
        /\ o \in DOMAIN timers
    /\ Cardinality(DOMAIN timers) = 1

\* ---------------------------------------------------------------------------
\* C31
\* ---------------------------------------------------------------------------
\* this step is a step of the timer callback of o: it runs, or its awaited
\* getPurchases call settles
OwnCallbackStep(o) ==
    \/ Fire(o)
    \/ /\ last'.op \in {"purchasesOk", "purchasesFail"}
       /\ last'.obj = o
       /\ \E c \in calls \ calls' : c.by = o

\* C31: a schedule entry's fields are changed only by its own timer callback
\* (inProgress and completed; id, subscriptionId, scheduledAt and reason never
\* change), and entries are never removed individually: between two clears the
\* collection only grows, and a clear empties it entirely.
C31_EntriesChangedOnlyByOwnCallback ==
    /\ [][\A o \in (DOMAIN heap) \cap (DOMAIN heap') :
            /\ heap'[o].id = heap[o].id
            /\ heap'[o].subscriptionId = heap[o].subscriptionId
            /\ heap'[o].scheduledAt = heap[o].scheduledAt
            /\ heap'[o].reason = heap[o].reason
            /\ heap'[o] # heap[o] => OwnCallbackStep(o)]_vars
    /\ [][\/ schedules \subseteq schedules'
          \/ /\ schedules' = {}
             /\ last'.op \in {"clearStoredData", "clearSchedules"}]_vars
    /\ [][ClearStoredData => schedules' = {}]_vars

\* a callback has completed its entry while the collection holds other entries,
\* and no entry has left the collection
C31_Witness ==
    /\ last.op = "purchasesOk"
    /\ last.obj \in schedules
    /\ heap[last.obj].completed
    /\ Cardinality(schedules) >= 2
    /\ \E o \in schedules : ~heap[o].completed

\* ---------------------------------------------------------------------------
\* C36
\* ---------------------------------------------------------------------------
\* the getPurchases call started by the timer callback of o is outstanding
Outstanding(o) == \E c \in calls : c.by = o /\ c.kind = "purchases"

\* C36: an entry has inProgress = true exactly while the getPurchases call
\* started by its own timer callback is outstanding: the flag is set in the same
\* step as the sibling scan and reset when that call completes, on success and
\* on failure alike, so no entry whose callback has finished is left in progress.
C36_InProgressIffCallOutstanding ==
    /\ [](\A o \in DOMAIN heap : heap[o].inProgress <=> Outstanding(o))
    /\ [][\A o \in DOMAIN timers :
            (Fire(o) /\ last'.out = "fetch") => heap'[o].inProgress /\ ~heap[o].inProgress]_vars
    /\ [][\A o \in (DOMAIN heap) \cap (DOMAIN heap') :
            (heap[o].inProgress /\ ~heap'[o].inProgress) =>
                /\ last'.op \in {"purchasesOk", "purchasesFail"}
                /\ last'.obj = o]_vars

\* the call of one callback has just failed and its entry is no longer in
\* progress, while the call of a callback of another subscription is outstanding
C36_Witness ==
    /\ last.op = "purchasesFail"
    /\ last.obj \in schedules
    /\ ~heap[last.obj].inProgress
    /\ \E o \in schedules :
        /\ heap[o].inProgress
        /\ Outstanding(o)
        /\ heap[o].subscriptionId # heap[last.obj].subscriptionId

\* ---------------------------------------------------------------------------
\* C32
\* ---------------------------------------------------------------------------
\* the cache entry written for a fetch that returned products at time now
CacheEntry(products, now) == <<[products |-> products, fetchedAt |-> now]>>

\* C32: in every reachable state a product cache entry, if present, holds the
\* product list of a successful backend product fetch together with the time of
\* that fetch (fetchedAt not later than now); products and fetchedAt are written
\* together, and the entry is overwritten on every successful product fetch.
C32_CacheIsLastSuccessfulFetch ==
    /\ [](cache # <<>> => cache[1].products \in ProductLists /\ cache[1].fetchedAt <= Now)
    /\ [][\A c \in calls, p \in ProductLists, w \in BOOLEAN :
            ProductsOk(c, p, w) => cache' = CacheEntry(p, Now)]_vars

\* C32 (amended): a cache entry, if present, holds the product list of a
\* successful product fetch together with the wall-clock time read at that
\* fetch, which is not later than now unless the wall clock was set back since;
\* the entry is written whole, by a successful fetch whose storage write
\* succeeds, and is otherwise changed only by clearStoredData, which removes it;
\* a successful fetch whose write fails leaves the entry as it was.
C32_CacheIsSomeSuccessfulFetchWritten ==
    /\ [](cache # <<>> =>
            /\ cache[1].products \in ProductLists
            /\ cache[1].fetchedAt <= mono
            /\ skew = 0 => cache[1].fetchedAt <= Now)
    /\ [][\A c \in calls, p \in ProductLists, w \in BOOLEAN :
            ProductsOk(c, p, w) => cache' = IF w THEN CacheEntry(p, Now) ELSE cache]_vars
    /\ [][cache' # cache =>
            \/ \E c \in calls, p \in ProductLists :
                   ProductsOk(c, p, TRUE) /\ cache' = CacheEntry(p, Now)
            \/ ClearStoredData /\ cache' = <<>>]_vars

\* a second successful fetch has just replaced the entry of an earlier one
C32_Witness ==
    /\ last.op = "productsOk"
    /\ cache = CacheEntry(<<"p1", "p2">>, Now)
    /\ Now >= PRODUCTS_FRESHNESS
    /\ lastFetchOk = <<Now>>

\* ---------------------------------------------------------------------------
\* C33
\* ---------------------------------------------------------------------------
\* C33: in every reachable state no two entries of the schedule collection have
\* the same id (same subscriptionId and same scheduledAt), after any sequence of
\* scheduleRefresh, schedulePurchaseRefreshes, changePlan, retries and clears.
C33_IdsUniqueInCollection ==
    \A a, b \in schedules :
        (\/ heap[a].id = heap[b].id
         \/ /\ heap[a].subscriptionId = heap[b].subscriptionId
            /\ heap[a].scheduledAt = heap[b].scheduledAt) => a = b

\* an entry was re-created after a clear while the timer of the cleared entry
\* with the same id is still pending: the collection holds the id once
C33_Witness ==
    \E o \in DOMAIN timers \ schedules :
        /\ \E x \in schedules : heap[x].id = heap[o].id
        /\ Cardinality({x \in schedules : heap[x].id = heap[o].id}) = 1

\* ---------------------------------------------------------------------------
\* C34
\* ---------------------------------------------------------------------------
\* the entries recorded by a step
NewEntries == schedules' \ schedules

\* C34: each schedule entry has at most one timer armed for it over its
\* lifetime (a timer is armed only in the step that creates the entry) and its
\* callback starts at most one getPurchases call (a call is started for an entry
\* only by the step in which its timer fires); a failed attempt records at most
\* one entry, its retry, and a failed retry records none, so one scheduleRefresh
\* call causes at most two scheduler-initiated backend calls.
C34_OneTimerOneCallOneRetry ==
    /\ [][\A o \in (DOMAIN timers') \ (DOMAIN timers) : o \notin DOMAIN heap]_vars
    /\ [][\A c \in calls' \ calls :
            c.by # NoObj => /\ c.by \in DOMAIN timers
                            /\ c.by \notin DOMAIN timers'
                            /\ ~Outstanding(c.by)]_vars
    /\ [](\A c, e \in calls : (c.by # NoObj /\ c.by = e.by) => c = e)
    /\ [][\A c \in calls :
            CallbackFails(c) =>
                /\ c.by \notin DOMAIN timers'
                /\ (DOMAIN timers') \ (DOMAIN timers) \subseteq NewEntries
                /\ IF IsRetry(heap[c.by].reason)
                   THEN NewEntries = {}
                   ELSE /\ Cardinality(NewEntries) <= 1
                        /\ \A n \in NewEntries :
                               /\ IsRetry(heap'[n].reason)
                               /\ heap'[n].reason = <<"retry-">> \o heap[c.by].reason]_vars

\* the call of a retry entry has failed: the attempt and its retry were made,
\* and nothing is armed or outstanding any more
C34_Witness ==
    /\ last.op = "purchasesFail"
    /\ last.out = "caught"
    /\ IsRetry(last.reason)
    /\ DOMAIN timers = {}
    /\ calls = {}
    /\ Cardinality(schedules) = 2

\* ---------------------------------------------------------------------------
\* C35
\* ---------------------------------------------------------------------------
\* the operations the application invokes, as recorded in `last`
ApplicationOps ==
    {"construct", "load", "getProducts", "refreshProducts", "getAccessToken", "order",
     "getPurchases", "changePlan", "clearStoredData", "scheduleRefresh",
     "schedulePurchaseRefreshes", "clearSchedules"}

\* C35: once clearStoredData() has returned, the persisted credential and the
\* product cache stay absent and the schedule collection stays empty until the
\* application invokes another operation: a step that follows the clear and is
\* not an operation of the application (a response arriving, a timer firing)
\* leaves all three empty.
C35_ClearedStaysClearedUntilNextOperation ==
    [][(last.op = "clearStoredData" /\ last'.op \notin ApplicationOps) =>
            /\ token' = NoToken
            /\ cache' = <<>>
            /\ schedules' = {}]_vars

\* ---------------------------------------------------------------------------
\* C37
\* ---------------------------------------------------------------------------
\* C37: if the backend fails every purchase fetch and the application makes no
\* further calls, the scheduler reaches quiescence: eventually, and from then
\* on for ever, no timer is armed and no backend call is outstanding.
C37_EventuallyQuiescent == <>[](DOMAIN timers = {} /\ calls = {})

\* two entries were handed over, both attempts and both retries failed, the
\* last of them after the horizon of the application's calls: nothing is left
C37_Witness ==
    /\ last.op = "purchasesFail"
    /\ IsRetry(last.reason)
    /\ Cardinality(schedules) = 4
    /\ \A o \in schedules : ~heap[o].completed /\ ~heap[o].inProgress
    /\ mono > lim.time
    /\ DOMAIN timers = {}
    /\ calls = {}

====
